---------------------------- MODULE Spec2Model ----------------------------
(***************************************************************************)
(* Model of the core of project-planning-for-you-track:                    *)
(*   - the reduction of issues to machine-scheduling jobs and the          *)
(*     translation of the solver's schedule (src/src/main/scheduling.ts),  *)
(*   - the issue forest (src/unnamed/part_005),                            *)
(*   - the reconstruction of state transitions (src/unnamed/part_004),     *)
(*   - appendSchedule and groupByIntervalAndWaitStatus (scheduling.ts),    *)
(*   - the overlay order, the warnings of the project plan and the         *)
(*     progress updates (src/unnamed/part_004),                            *)
(*   - httpGet, httpGetAll (src/unnamed/part_004) and the OAuth functions  *)
(*     (src/src/main/you-track-oauth.ts).                                  *)
(* Issue ids are modelled by the 1-based position of the issue in the      *)
(* input array (ids are unique), 0 standing for the empty string ''.       *)
(* Job and machine indices are 1-based here, 0-based in the source.        *)
(***************************************************************************)
EXTENDS Integers, Sequences, FiniteSets, TLC

VARIABLES
    \* scheduleUnresolved
    issues,          \* argument: SchedulableIssue[] (after assignDefined)
    options,         \* argument: Required<SchedulingOptions>
    schedPc,         \* "idle" | "start" | "awaiting" | "resolved" | "rejected"
    instance,        \* result of makeSchedulingInstance
    machineSchedule, \* the solver's answer
    schedule,        \* returned Schedule, IssueActivity[][]
    \* appendSchedule
    apHeap,          \* the objects (issues, activities, warnings); a reference is an index
    apHeap0,         \* the heap when appendSchedule was called
    apPlan,          \* argument projectPlan: [issues: references, warnings: references]
    apSchedule,      \* argument schedule: per issue the references of its activities
    apDivision,      \* argument divisionTimestamp
    apResult,        \* the returned value
    apPc,            \* "idle" | "start" | "returned"
    \* reconstruction of one issue's activities from its state changes
    stateTransitions, \* issue.stateTransitions
    trIssue,         \* the issue: created, lastUpdate, activeState, assignee
    trConfig,        \* config_: minStateChangeDurationMs
    trActivities,    \* issue.issueActivities
    trPc,            \* "idle" | "events" | "finalized" | "assertion-unknown" | "assertion-gap"
    trChronological, \* the activity items so far came in chronological order
    trLastTimestamp, \* timestamp of the latest activity item (of the creation if none)
    \* groupByIntervalAndWaitStatus
    grActivities,    \* argument: IssueActivity[]
    grResult,        \* returned value: MultiAssigneeIssueActivity[]
    grPc,            \* "idle" | "start" | "returned" | "assertion"
    \* makeForest and traverseIssueForest
    fIssues,         \* argument of makeForest: the issues with id, parent, dependencies
    fNodes,          \* the array `nodes`; a node reference is a position in it
    fYielded,        \* the node sequences yielded by the iterations of the returned iterable
    fIterator,       \* currentIterator: the node list iterated and the position reached
    fStack,          \* stack of traverseIssueForest
    fCalls,          \* the calls of enterNode and leaveNode so far
    fPc,             \* "idle" | "start" | "made" | "threw" | "traversing" | "done"
    \* retrieveOverlayOrder and the project plan of finalizeSchedule
    issues_,         \* this.issues_: the issues of the saved search, by internal id
    idToIssueMap_,   \* this.idToIssueMap_: internal id -> issue with its references
    projectPlan_,    \* this.projectPlan_: issues and warnings
    ovSaved,         \* this.issues_ when retrieveOverlayOrder was called
    ovResponse,      \* the ids of the issues of the overlay saved search, in its order
    ovConfigured,    \* config_.overlaySavedQueryId is not empty
    ovPc,            \* "idle" | "start" | "returned" | "finalized"
    \* httpGet
    hgBaseUrl,       \* argument baseUrl
    hgAuthorization, \* authorizationFor(baseUrl); "undefined" when there is none
    hgXhr,           \* the XMLHttpRequest: number of send() calls, response, status
    hgPromise,       \* the returned promise: state and value
    hgSettled,       \* calls of resolve and reject so far
    hgPc,            \* "idle" | "start" | "rejected" | "sent" | "finished"
    \* httpGetAll
    gaServer,        \* the array that the server serves in windows
    gaBatchSize,     \* argument restBatchSize
    gaQueryParams,   \* argument queryParams, an object of the caller
    gaRequests,      \* the requests sent so far: their query parameters $top and $skip
    gaBatches,       \* the batches received so far
    gaCalls,         \* the calls of processBatch so far: batch, previous, returned
    gaLocals,        \* numElementsRetrieved, busy, state
    gaResult,        \* the value the returned promise is fulfilled with
    gaPc,            \* "idle" | "start" | "awaiting" | "resolved"
    \* goToOauthPage, handlePotentialOauthRedirect, authorizationFor
    sessionStorage,  \* the entries under the OAuth keys: oAuthId -> stored JSON text
    baseUrlToAccessTokenMap, \* normalized base URL -> access token
    oaNow,           \* Date.now()
    oaRequests,      \* the calls of goToOauthPage so far: oAuthId, baseUrl, appState
    oaCall,          \* the latest call: function, arguments, storage and tokens before it, result
    \* progress updates of YouTrackIssueActivities
    numIssues_,      \* count of the saved search
    numTasksWithDetails_, \* issues retrieved so far
    minTimeStamp_,   \* timestamp of the first activity item
    maxUpdateTimeStamp_, \* latest update of an issue
    maxActivityTimeStamp_, \* latest activity item seen
    lastProgressUpdate_, \* Date.now() of the last invocation
    prConfig,        \* progressUpdateIntervalMs and restBatchSize
    prServer,        \* the responses that are still to come
    prNow,           \* the last value of Date.now()
    progressCallback, \* the invocations of the callback
    prPc,            \* position in run()
    \* YouTrackIssueActivities.run: the requests of one reconstruction
    rnTokenValid,    \* authorizationFor(baseUrl) is not undefined
    rnHasOverlay,    \* config.overlaySavedQueryId is not empty
    rnStage,         \* the position in Stages
    rnRequests,      \* the requests sent, in order
    rnResponses,     \* the responses that arrived, in order
    rnOutstanding,   \* number of requests sent and not answered
    rnRefused,       \* httpGet has rejected without a request
    rnProcessed,     \* number of batches and pages processed
    rnPromise,       \* the promise that reconstructProjectPlan returned
    rnPc             \* start, awaiting, fulfilled, rejected

varsSched == <<issues, options, schedPc, instance, machineSchedule, schedule>>
varsAppend == <<apHeap, apHeap0, apPlan, apSchedule, apDivision, apResult, apPc>>
varsTrans == <<stateTransitions, trIssue, trConfig, trActivities, trPc,
               trChronological, trLastTimestamp>>
varsGroup == <<grActivities, grResult, grPc>>
varsForest == <<fIssues, fNodes, fYielded, fIterator, fStack, fCalls, fPc>>
varsOverlay == <<issues_, idToIssueMap_, projectPlan_, ovSaved, ovResponse, ovConfigured, ovPc>>
varsHttpGet == <<hgBaseUrl, hgAuthorization, hgXhr, hgPromise, hgSettled, hgPc>>
varsHttpGetAll == <<gaServer, gaBatchSize, gaQueryParams, gaRequests, gaBatches, gaCalls, gaLocals, gaResult, gaPc>>
varsOauth == <<sessionStorage, baseUrlToAccessTokenMap, oaNow, oaRequests, oaCall>>
varsProgress == <<numIssues_, numTasksWithDetails_, minTimeStamp_, maxUpdateTimeStamp_, maxActivityTimeStamp_, lastProgressUpdate_, prConfig, prServer, prNow, progressCallback, prPc>>
varsRun == <<rnTokenValid, rnHasOverlay, rnStage, rnRequests, rnResponses, rnOutstanding, rnRefused, rnProcessed, rnPromise, rnPc>>

vars == <<varsSched, varsAppend, varsTrans, varsGroup, varsForest, varsOverlay, varsHttpGet, varsHttpGetAll, varsOauth, varsProgress, varsRun>>

varsNotSched == <<varsAppend, varsTrans, varsGroup, varsForest, varsOverlay, varsHttpGet, varsHttpGetAll, varsOauth, varsProgress, varsRun>>
varsNotAppend == <<varsSched, varsTrans, varsGroup, varsForest, varsOverlay, varsHttpGet, varsHttpGetAll, varsOauth, varsProgress, varsRun>>
varsNotTrans == <<varsSched, varsAppend, varsGroup, varsForest, varsOverlay, varsHttpGet, varsHttpGetAll, varsOauth, varsProgress, varsRun>>
varsNotGroup == <<varsSched, varsAppend, varsTrans, varsForest, varsOverlay, varsHttpGet, varsHttpGetAll, varsOauth, varsProgress, varsRun>>
varsNotForest == <<varsSched, varsAppend, varsTrans, varsGroup, varsOverlay, varsHttpGet, varsHttpGetAll, varsOauth, varsProgress, varsRun>>
varsNotOverlay == <<varsSched, varsAppend, varsTrans, varsGroup, varsForest, varsHttpGet, varsHttpGetAll, varsOauth, varsProgress, varsRun>>
varsNotHttpGet == <<varsSched, varsAppend, varsTrans, varsGroup, varsForest, varsOverlay, varsHttpGetAll, varsOauth, varsProgress, varsRun>>
varsNotHttpGetAll == <<varsSched, varsAppend, varsTrans, varsGroup, varsForest, varsOverlay, varsHttpGet, varsOauth, varsProgress, varsRun>>
varsNotOauth == <<varsSched, varsAppend, varsTrans, varsGroup, varsForest, varsOverlay, varsHttpGet, varsHttpGetAll, varsProgress, varsRun>>
varsNotProgress == <<varsSched, varsAppend, varsTrans, varsGroup, varsForest, varsOverlay, varsHttpGet, varsHttpGetAll, varsOauth, varsRun>>
varsNotRun == <<varsSched, varsAppend, varsTrans, varsGroup, varsForest, varsOverlay, varsHttpGet, varsHttpGetAll, varsOauth, varsProgress>>

\* the components that a specification does not exercise stay idle
IdleSched ==
    /\ issues = <<>>
    /\ options = <<>>
    /\ schedPc = "idle"
    /\ instance = <<>>
    /\ machineSchedule = <<>>
    /\ schedule = <<>>

IdleAppend ==
    /\ apHeap = <<>>
    /\ apHeap0 = <<>>
    /\ apPlan = <<>>
    /\ apSchedule = <<>>
    /\ apDivision = 0
    /\ apResult = <<>>
    /\ apPc = "idle"

IdleTrans ==
    /\ stateTransitions = <<>>
    /\ trIssue = <<>>
    /\ trConfig = <<>>
    /\ trActivities = <<>>
    /\ trPc = "idle"
    /\ trChronological = TRUE
    /\ trLastTimestamp = 0

IdleGroup ==
    /\ grActivities = <<>>
    /\ grResult = <<>>
    /\ grPc = "idle"

IdleForest ==
    /\ fIssues = <<>>
    /\ fNodes = <<>>
    /\ fYielded = <<>>
    /\ fIterator = <<>>
    /\ fStack = <<>>
    /\ fCalls = <<>>
    /\ fPc = "idle"

IdleOverlay ==
    /\ issues_ = <<>>
    /\ idToIssueMap_ = <<>>
    /\ projectPlan_ = <<>>
    /\ ovSaved = <<>>
    /\ ovResponse = <<>>
    /\ ovConfigured = FALSE
    /\ ovPc = "idle"

IdleHttpGet ==
    /\ hgBaseUrl = ""
    /\ hgAuthorization = ""
    /\ hgXhr = <<>>
    /\ hgPromise = <<>>
    /\ hgSettled = 0
    /\ hgPc = "idle"

IdleHttpGetAll ==
    /\ gaServer = <<>>
    /\ gaBatchSize = 0
    /\ gaQueryParams = <<>>
    /\ gaRequests = <<>>
    /\ gaBatches = <<>>
    /\ gaCalls = <<>>
    /\ gaLocals = <<>>
    /\ gaResult = <<>>
    /\ gaPc = "idle"

IdleOauth ==
    /\ sessionStorage = <<>>
    /\ baseUrlToAccessTokenMap = <<>>
    /\ oaNow = 0
    /\ oaRequests = <<>>
    /\ oaCall = <<>>

IdleProgress ==
    /\ numIssues_ = 0
    /\ numTasksWithDetails_ = 0
    /\ minTimeStamp_ = 0
    /\ maxUpdateTimeStamp_ = 0
    /\ maxActivityTimeStamp_ = 0
    /\ lastProgressUpdate_ = 0
    /\ prConfig = <<>>
    /\ prServer = <<>>
    /\ prNow = 0
    /\ progressCallback = <<>>
    /\ prPc = "idle"

IdleRun ==
    /\ rnTokenValid = FALSE
    /\ rnHasOverlay = FALSE
    /\ rnStage = 0
    /\ rnRequests = <<>>
    /\ rnResponses = <<>>
    /\ rnOutstanding = 0
    /\ rnRefused = FALSE
    /\ rnProcessed = 0
    /\ rnPromise = [state |-> "pending", value |-> ""]
    /\ rnPc = "idle"

IdleNotSched == IdleAppend /\ IdleTrans /\ IdleGroup /\ IdleForest /\ IdleOverlay /\ IdleHttpGet /\ IdleHttpGetAll /\ IdleOauth /\ IdleProgress /\ IdleRun
IdleNotAppend == IdleSched /\ IdleTrans /\ IdleGroup /\ IdleForest /\ IdleOverlay /\ IdleHttpGet /\ IdleHttpGetAll /\ IdleOauth /\ IdleProgress /\ IdleRun
IdleNotTrans == IdleSched /\ IdleAppend /\ IdleGroup /\ IdleForest /\ IdleOverlay /\ IdleHttpGet /\ IdleHttpGetAll /\ IdleOauth /\ IdleProgress /\ IdleRun
IdleNotGroup == IdleSched /\ IdleAppend /\ IdleTrans /\ IdleForest /\ IdleOverlay /\ IdleHttpGet /\ IdleHttpGetAll /\ IdleOauth /\ IdleProgress /\ IdleRun
IdleNotForest == IdleSched /\ IdleAppend /\ IdleTrans /\ IdleGroup /\ IdleOverlay /\ IdleHttpGet /\ IdleHttpGetAll /\ IdleOauth /\ IdleProgress /\ IdleRun
IdleNotOverlay == IdleSched /\ IdleAppend /\ IdleTrans /\ IdleGroup /\ IdleForest /\ IdleHttpGet /\ IdleHttpGetAll /\ IdleOauth /\ IdleProgress /\ IdleRun
IdleNotHttpGet == IdleSched /\ IdleAppend /\ IdleTrans /\ IdleGroup /\ IdleForest /\ IdleOverlay /\ IdleHttpGetAll /\ IdleOauth /\ IdleProgress /\ IdleRun
IdleNotHttpGetAll == IdleSched /\ IdleAppend /\ IdleTrans /\ IdleGroup /\ IdleForest /\ IdleOverlay /\ IdleHttpGet /\ IdleOauth /\ IdleProgress /\ IdleRun
IdleNotOauth == IdleSched /\ IdleAppend /\ IdleTrans /\ IdleGroup /\ IdleForest /\ IdleOverlay /\ IdleHttpGet /\ IdleHttpGetAll /\ IdleProgress /\ IdleRun
IdleNotProgress == IdleSched /\ IdleAppend /\ IdleTrans /\ IdleGroup /\ IdleForest /\ IdleOverlay /\ IdleHttpGet /\ IdleHttpGetAll /\ IdleOauth /\ IdleRun
IdleNotRun == IdleSched /\ IdleAppend /\ IdleTrans /\ IdleGroup /\ IdleForest /\ IdleOverlay /\ IdleHttpGet /\ IdleHttpGetAll /\ IdleOauth /\ IdleProgress

-----------------------------------------------------------------------------
(* Bounds of the model *)

MaxIssues == 3

\* scheduleUnresolved with a solver: number of issues, effort and wait time of an
\* issue in ms, horizon of the solver's time axis, work fragments per job
MaxSchedIssues == 2
MaxEffortMs == 2
MaxWaitMs == 1
MaxSolverTime == 3
MaxWorkFragments == 2

\* scheduleUnresolved for closed issue sets with cycles: number of issues
MaxClosedIssues == 2

\* appendSchedule: latest timestamp, activities of a one-issue plan and forecast
\* together (one less for plans of several issues), issues of a plan
MaxApTime == 2
MaxApActs == 2
MaxApIssues == 2

\* reconstruction: latest timestamp of an activity item, largest
\* minStateChangeDurationMs, latest creation timestamp
MaxTrTime == 4
MaxTrDuration == 3
MaxTrCreated == 1

\* groupByIntervalAndWaitStatus: latest timestamp, number of activities
MaxGrTime == 2
MaxGrActs == 2

\* makeForest: number of issues, dependency entries of all issues together,
\* iterations of the returned iterable
MaxForestIssues == 3
MaxForestDeps == 2
MaxIterations == 2

\* retrieveOverlayOrder: internal ids of issues, length of the two saved searches
MaxOverlayIds == 4
MaxOverlayLen == 3

\* the project plan: internal ids, issues of the saved search, references of an issue
MaxPlanIds == 3
MaxPlanIssues == 2
MaxPlanRefs == 2

\* httpGetAll: length of the array on the server, restBatchSize
MaxServerLen == 3
MaxBatchSize == 3

\* OAuth: seconds on the clock, value of Math.random() * 10000
MaxNow == 1
MaxRandom == 0

\* progress updates: step of Date.now(), progressUpdateIntervalMs, restBatchSize,
\* timestamps of the server, issues and activity items of the saved search
MaxTick == 1
MaxIntervalMs == 2
MaxRestBatchSize == 2
MaxTimestamp == 2
MaxProgressIssues == 2
MaxProgressActivities == 2

\* run: requests per paginated retrieval
MaxPages == 2

-----------------------------------------------------------------------------
(* Generic helpers *)

Max(a, b) == IF a >= b THEN a ELSE b
Min(a, b) == IF a <= b THEN a ELSE b

\* Math.ceil(a / b) for a >= 0, b > 0
CeilDiv(a, b) == (a + b - 1) \div b

RECURSIVE SeqSum(_)
SeqSum(s) == IF s = <<>> THEN 0 ELSE Head(s) + SeqSum(Tail(s))

RECURSIVE Flatten(_)
Flatten(ss) == IF ss = <<>> THEN <<>> ELSE Head(ss) \o Flatten(Tail(ss))

Range(s) == {s[i] : i \in DOMAIN s}

\* the ascending sequence of the elements of a finite set of integers
RECURSIVE SetToSeq(_)
SetToSeq(S) ==
    IF S = {} THEN <<>>
    ELSE LET m == CHOOSE x \in S : \A y \in S : x <= y
         IN  <<m>> \o SetToSeq(S \ {m})

\* first position of x in s, 0 if absent
IndexOf(s, x) ==
    IF \E i \in DOMAIN s : s[i] = x
    THEN CHOOSE i \in DOMAIN s : s[i] = x /\ \A k \in 1..(i - 1) : s[k] # x
    ELSE 0

-----------------------------------------------------------------------------
(* Issue forest: makeForest and traverseIssueForest *)

\* node.children of the node of issue p: the issues naming p as parent, in input order
NodeChildren(iss, p) == SelectSeq([i \in 1..Len(iss) |-> i], LAMBDA i : iss[i].parent = p)

\* the iterable returned by makeForest: nodes without parent, in input order
RootNodes(iss) == SelectSeq([i \in 1..Len(iss) |-> i], LAMBDA i : iss[i].parent = 0)

\* the order in which traverseIssueForest calls enterNode, for the node list `nodes`
RECURSIVE EnterOrder(_, _)
EnterOrder(iss, nodes) ==
    IF nodes = <<>> THEN <<>>
    ELSE <<Head(nodes)>> \o EnterOrder(iss, NodeChildren(iss, Head(nodes)))
                         \o EnterOrder(iss, Tail(nodes))

-----------------------------------------------------------------------------
(* makeForest and traverseIssueForest, statement by statement.  A forest   *)
(* issue is [id, parent, dependencies]; parent 0 stands for undefined or   *)
(* the empty string; a node is [index, issue, parent, children,            *)
(* dependencies, dependents] with node references as positions in `nodes`, *)
(* parent 0 for undefined.                                                 *)

\* lines 13-22: one node per issue, in input order
NewNodes(iss) ==
    [i \in 1..Len(iss) |->
        [index |-> i - 1, issue |-> iss[i], parent |-> 0,
         children |-> <<>>, dependencies |-> <<>>, dependents |-> <<>>]]

\* idToNode.get(key): the node of the issue with that id, 0 for undefined
idToNode(nodes, key) ==
    IF \E k \in DOMAIN nodes : nodes[k].issue.id = key
    THEN CHOOSE k \in DOMAIN nodes : nodes[k].issue.id = key
    ELSE 0

\* puts the node in front of the parent's children
LinkParentInFront(st, i) ==
    LET parentKey == st.nodes[i].issue.parent
        parent == idToNode(st.nodes, parentKey)
    IN  IF parentKey = 0 THEN st
        ELSE IF parent = 0 THEN [st EXCEPT !.threw = TRUE]
        ELSE [st EXCEPT !.nodes[i].parent = parent,
                        !.nodes[parent].children = <<i>> \o @]

\* lines 25-29; node.parent.children of an undefined node.parent is a TypeError
LinkParent(st, i) ==
    LET parentKey == st.nodes[i].issue.parent
        parent == idToNode(st.nodes, parentKey)
    IN  IF parentKey = 0 THEN st
        ELSE IF parent = 0 THEN [st EXCEPT !.threw = TRUE]
        ELSE [st EXCEPT !.nodes[i].parent = parent,
                        !.nodes[parent].children = Append(@, i)]

\* lines 31-37; dependencyNode.dependents of an undefined dependencyNode is a TypeError
RECURSIVE LinkDependencies(_, _, _)
LinkDependencies(st, i, deps) ==
    IF st.threw \/ deps = <<>> THEN st
    ELSE LET dependencyNode == idToNode(st.nodes, Head(deps))
         IN  IF dependencyNode = 0 THEN [st EXCEPT !.threw = TRUE]
             ELSE LinkDependencies(
                     [st EXCEPT !.nodes[dependencyNode].dependents = Append(@, i),
                                !.nodes[i].dependencies = Append(@, dependencyNode)],
                     i, Tail(deps))

\* lines 23-38: the loop over the nodes, from node i on
RECURSIVE LinkNodes(_, _)
LinkNodes(st, i) ==
    IF st.threw \/ i > Len(st.nodes) THEN st
    ELSE LinkNodes(LinkDependencies(LinkParent(st, i), i, st.nodes[i].issue.dependencies), i + 1)

\* makeForest up to its return statement: the nodes, or the exception
makeForest(iss) == LinkNodes([threw |-> FALSE, nodes |-> NewNodes(iss)], 1)

\* an iteration that yields every node
YieldedNodes(nodes) == [i \in 1..Len(nodes) |-> i]

\* lines 39-47: what one iteration of the returned iterable yields
YieldedRoots(nodes) == SelectSeq([i \in 1..Len(nodes) |-> i], LAMBDA i : nodes[i].parent = 0)

\* an array iterator: the array and the number of elements taken
NewIterator(list) == [list |-> list, taken |-> 0]
IteratorDone(it) == it.taken >= Len(it.list)

\* inputs: issues 1..n with unique ids; the id n + 1 belongs to no issue
ForestParents(n) == [1..n -> 0..(n + 1)]
ForestEdges(n, m) == [1..m -> (1..n) \X (1..(n + 1))]

DependenciesFrom(edges, i) ==
    LET from == SelectSeq([k \in 1..Len(edges) |-> k], LAMBDA k : edges[k][1] = i)
    IN  [k \in 1..Len(from) |-> edges[from[k]][2]]

\* parent relations in which every parent comes before its children
ForestParentsBefore(n) == {pf \in [1..n -> 0..n] : \A i \in 1..n : pf[i] < i}

IssuesWithBoth(n, pf, edges) ==
    [i \in 1..n |-> [id |-> i, parent |-> pf[i], dependencies |-> DependenciesFrom(edges, i)]]

IssuesWithParents(n, pf) == [i \in 1..n |-> [id |-> i, parent |-> pf[i], dependencies |-> <<>>]]
IssuesWithDependencies(n, edges) ==
    [i \in 1..n |-> [id |-> i, parent |-> 0, dependencies |-> DependenciesFrom(edges, i)]]

MakeForestCall ==
    /\ fPc = "start"
    /\ LET r == makeForest(fIssues)
       IN  IF r.threw
           THEN fPc' = "threw" /\ fNodes' = fNodes
           ELSE fPc' = "made" /\ fNodes' = r.nodes
    /\ UNCHANGED <<fIssues, fYielded, fIterator, fStack, fCalls>>
    /\ UNCHANGED varsNotForest

\* Array.from(rootNodes)
IterateRoots ==
    /\ fPc = "made"
    /\ Len(fYielded) < MaxIterations
    /\ fYielded' = Append(fYielded, YieldedRoots(fNodes))
    /\ UNCHANGED <<fIssues, fNodes, fIterator, fStack, fCalls, fPc>>
    /\ UNCHANGED varsNotForest

\* lines 67-68
TraverseCall ==
    /\ fPc = "made"
    /\ fIterator' = NewIterator(YieldedRoots(fNodes))
    /\ fStack' = <<>>
    /\ fCalls' = <<>>
    /\ fPc' = "traversing"
    /\ UNCHANGED <<fIssues, fNodes, fYielded>>
    /\ UNCHANGED varsNotForest

\* lines 71-74: the iterator is done and the stack empty
TraverseReturn ==
    /\ fPc = "traversing"
    /\ IteratorDone(fIterator)
    /\ fStack = <<>>
    /\ fPc' = "done"
    /\ UNCHANGED <<fIssues, fNodes, fYielded, fIterator, fStack, fCalls>>
    /\ UNCHANGED varsNotForest

\* lines 75-77: the iterator is done, back to the node on top of the stack
TraverseLeave ==
    /\ fPc = "traversing"
    /\ IteratorDone(fIterator)
    /\ fStack # <<>>
    /\ fIterator' = fStack[Len(fStack)].iterator
    /\ fCalls' = Append(fCalls, <<"leave", fStack[Len(fStack)].node>>)
    /\ fStack' = SubSeq(fStack, 1, Len(fStack) - 1)
    /\ UNCHANGED <<fIssues, fNodes, fYielded, fPc>>
    /\ UNCHANGED varsNotForest

\* lines 79-83: the next node has children
TraverseDescend ==
    /\ fPc = "traversing"
    /\ ~IteratorDone(fIterator)
    /\ LET node == fIterator.list[fIterator.taken + 1]
       IN  /\ Len(fNodes[node].children) > 0
           /\ fCalls' = Append(fCalls, <<"enter", node>>)
           /\ fStack' = Append(fStack, [node |-> node,
                                        iterator |-> [fIterator EXCEPT !.taken = @ + 1]])
           /\ fIterator' = NewIterator(fNodes[node].children)
    /\ UNCHANGED <<fIssues, fNodes, fYielded, fPc>>
    /\ UNCHANGED varsNotForest

\* lines 79-80, 84-86: the next node has no children
TraverseLeaf ==
    /\ fPc = "traversing"
    /\ ~IteratorDone(fIterator)
    /\ LET node == fIterator.list[fIterator.taken + 1]
       IN  /\ Len(fNodes[node].children) = 0
           /\ fCalls' = fCalls \o << <<"enter", node>>, <<"leave", node>> >>
           /\ fIterator' = [fIterator EXCEPT !.taken = @ + 1]
    /\ UNCHANGED <<fIssues, fNodes, fYielded, fStack, fPc>>
    /\ UNCHANGED varsNotForest

InitForest ==
    /\ \/ \E n \in 0..MaxForestIssues : \E pf \in ForestParents(n) :
            fIssues = IssuesWithParents(n, pf)
       \/ \E n \in 1..MaxForestIssues, m \in 1..MaxForestDeps : \E edges \in ForestEdges(n, m) :
            fIssues = IssuesWithDependencies(n, edges)
       \/ \E n \in 1..MaxForestIssues : \E pf \in ForestParentsBefore(n), edges \in ForestEdges(n, 1) :
            fIssues = IssuesWithBoth(n, pf, edges)
    /\ fNodes = <<>>
    /\ fYielded = <<>>
    /\ fIterator = <<>>
    /\ fStack = <<>>
    /\ fCalls = <<>>
    /\ fPc = "start"
    /\ IdleNotForest

TraverseStep == TraverseReturn \/ TraverseLeave \/ TraverseDescend \/ TraverseLeaf

NextForest == MakeForestCall \/ IterateRoots \/ TraverseCall \/ TraverseStep

SpecForest == InitForest /\ [][NextForest]_vars

\* the loop of traverseIssueForest runs on once the function was called
SpecTraversal == SpecForest /\ WF_vars(TraverseStep)

-----------------------------------------------------------------------------
(* makeJobDescriptors: the job descriptors <<node, jobType>> in job order *)

\* step 2, the traversal callback: two dummy jobs per visited node with children
DummyDescriptors(iss) ==
    LET entered == EnterOrder(iss, RootNodes(iss))
    IN  Flatten([k \in 1..Len(entered) |->
            IF Len(NodeChildren(iss, entered[k])) > 0
            THEN << <<entered[k], "START_TO_START">>, <<entered[k], "FINISH_TO_FINISH">> >>
            ELSE <<>>])

\* assert(..., 'Traversal must have visited all issues')
TraversalVisitedAll(iss) == Len(EnterOrder(iss, RootNodes(iss))) = Len(iss)

MainDescriptors(iss) == [i \in 1..Len(iss) |-> <<i, "MAIN">>]

\* the main jobs first
makeJobDescriptorsMainFirst(iss) == MainDescriptors(iss) \o DummyDescriptors(iss)

makeJobDescriptors(iss) == DummyDescriptors(iss) \o MainDescriptors(iss)

\* issue.jobIdx, as set in step 2
jobIdx(iss, i) == Len(DummyDescriptors(iss)) + i

\* issue.startToStartDummyJobIdx: the dummy job if step 3 found one, else jobIdx
startToStartDummyJobIdx(iss, i) ==
    IF IndexOf(DummyDescriptors(iss), <<i, "START_TO_START">>) # 0
    THEN IndexOf(DummyDescriptors(iss), <<i, "START_TO_START">>)
    ELSE jobIdx(iss, i)

\* the main job stands for the issue as a dependency
asDependencyJobIdxOfMain(iss, i) == jobIdx(iss, i)

\* issue.asDependencyJobIdx: the finish-to-finish dummy job if there is one, else jobIdx
asDependencyJobIdx(iss, i) ==
    IF IndexOf(DummyDescriptors(iss), <<i, "FINISH_TO_FINISH">>) # 0
    THEN IndexOf(DummyDescriptors(iss), <<i, "FINISH_TO_FINISH">>)
    ELSE jobIdx(iss, i)

-----------------------------------------------------------------------------
(* makeSchedulingInstance *)

\* one machine per contributor
machineIdxToContributorIdxOfSingles(opts) == [i \in 1..Len(opts.contributors) |-> i]

\* the machines: contributor i takes numMembers consecutive machine indices
machineIdxToContributorIdx(opts) ==
    Flatten([i \in 1..Len(opts.contributors) |->
                [k \in 1..opts.contributors[i].numMembers |-> i]])

machineSpeeds(opts) ==
    [m \in 1..Len(machineIdxToContributorIdx(opts)) |->
        opts.contributors[machineIdxToContributorIdx(opts)[m]].minutesPerWeek]

\* assigneeToContributorIdx.get(assignee): the last contributor with that id; 0 for undefined
assigneeToContributorIdx(opts, assignee) ==
    IF \E i \in 1..Len(opts.contributors) : opts.contributors[i].id = assignee
    THEN CHOOSE i \in 1..Len(opts.contributors) :
            /\ opts.contributors[i].id = assignee
            /\ \A k \in (i + 1)..Len(opts.contributors) : opts.contributors[k].id # assignee
    ELSE 0

\* `dependencies` as initialised before the switch: the parent's start-to-start job
ParentDependency(iss, node) ==
    IF iss[node].parent # 0
    THEN <<startToStartDummyJobIdx(iss, iss[node].parent)>>
    ELSE <<>>

\* node.dependencies.map((dependencyNode) => dependencyNode.issue.asDependencyJobIdx)
OwnDependencies(iss, node) ==
    [k \in 1..Len(iss[node].dependencies) |-> asDependencyJobIdx(iss, iss[node].dependencies[k])]

MainJobDependencies(iss, node) ==
    IF Len(NodeChildren(iss, node)) = 0
    THEN ParentDependency(iss, node) \o OwnDependencies(iss, node)
    ELSE ParentDependency(iss, node)

\* the job made from one job descriptor
MakeJob(iss, opts, desc) ==
    LET node == desc[1]
        jobType == desc[2]
    IN  CASE jobType = "START_TO_START" ->
                [type |-> jobType, issueIdx |-> node, size |-> 0, deliveryTime |-> 0,
                 splitting |-> "undefined", preAssignment |-> 0,
                 dependencies |-> ParentDependency(iss, node) \o OwnDependencies(iss, node)]
          [] jobType = "FINISH_TO_FINISH" ->
                [type |-> jobType, issueIdx |-> node, size |-> 0, deliveryTime |-> 0,
                 splitting |-> "undefined", preAssignment |-> 0,
                 dependencies |->
                    [k \in 1..Len(NodeChildren(iss, node)) |->
                        asDependencyJobIdx(iss, NodeChildren(iss, node)[k])]
                    \o <<jobIdx(iss, node)>>]
          [] OTHER ->
                [type |-> jobType, issueIdx |-> node,
                 size |-> CeilDiv(iss[node].remainingEffortMs, opts.resolutionMs) * opts.minutesPerWeek,
                 deliveryTime |-> CeilDiv(iss[node].remainingWaitTimeMs, opts.resolutionMs),
                 splitting |-> IF iss[node].splittable THEN "MULTIPLE_MACHINES" ELSE "PREEMPTION",
                 preAssignment |-> IF iss[node].assignee # ""
                                   THEN assigneeToContributorIdx(opts, iss[node].assignee)
                                   ELSE 0,
                 dependencies |-> MainJobDependencies(iss, node)]

makeSchedulingInstance(iss, opts) ==
    [jobs |-> LET jobDescriptors == makeJobDescriptors(iss)
              IN  [j \in 1..Len(jobDescriptors) |-> MakeJob(iss, opts, jobDescriptors[j])],
     machineSpeeds |-> machineSpeeds(opts),
     machineIdxToContributorIdx |-> machineIdxToContributorIdx(opts),
     minFragmentSize |-> opts.minActivityDuration * opts.minutesPerWeek]


-----------------------------------------------------------------------------
(* Graph helpers for the inputs and the claims *)

\* the least set containing S and closed under the edges E (node -> set of successor nodes)
RECURSIVE Closure(_, _)
Closure(E, S) ==
    LET T == S \cup UNION {E[x] : x \in S}
    IN  IF T = S THEN S ELSE Closure(E, T)

\* the nodes reachable from x over at least one edge
ReachPlus(E, x) == Closure(E, E[x])

IsAcyclic(E) == \A x \in DOMAIN E : x \notin ReachPlus(E, x)

\* the issue and its transitive sub-issues
Subtree(iss, a) ==
    Closure([i \in 1..Len(iss) |-> Range(NodeChildren(iss, i))], {a})

\* job -> set of the jobs it depends on
JobDependencyEdges(jobs) == [j \in 1..Len(jobs) |-> Range(jobs[j].dependencies)]

\* issue X has to wait for issue Y: an issue X is under depends on an issue Y is under
WaitsFor(iss) ==
    [x \in 1..Len(iss) |->
        {y \in 1..Len(iss) :
            \E a \in 1..Len(iss) : \E b \in Range(iss[a].dependencies) :
                x \in Subtree(iss, a) /\ y \in Subtree(iss, b)}]

-----------------------------------------------------------------------------
(* Claims about the issue forest *)

ForestMade == fPc \in {"made", "traversing", "done"}

\* every parent and dependency id is the id of an input issue
ClosedIssueSet(iss) ==
    \A i \in DOMAIN iss :
        /\ iss[i].parent # 0 => \E k \in DOMAIN iss : iss[k].id = iss[i].parent
        /\ \A d \in Range(iss[i].dependencies) : \E k \in DOMAIN iss : iss[k].id = d

\* C15: for a closed issue set with unique ids makeForest makes one node per
\* issue; every iteration of the returned iterable yields the nodes of the
\* issues without parent in input order; the children of a node are the
\* issues naming it as parent, in input order; the dependencies of a node
\* follow issue.dependencies; x is among the dependents of y iff y is among
\* the dependencies of x.
C15_ForestStructure ==
    /\ (fPc # "start" /\ fPc # "idle" /\ ClosedIssueSet(fIssues)) => ForestMade
    /\ ForestMade =>
        /\ Len(fNodes) = Len(fIssues)
        /\ \A i \in DOMAIN fNodes :
            /\ fNodes[i].issue = fIssues[i]
            /\ fNodes[i].children = NodeChildren(fIssues, fIssues[i].id)
            /\ fNodes[i].dependencies = fIssues[i].dependencies
        /\ \A k \in DOMAIN fYielded : fYielded[k] = RootNodes(fIssues)
        /\ \A x, y \in DOMAIN fNodes :
            x \in Range(fNodes[y].dependents) <=> y \in Range(fNodes[x].dependencies)

\* the iterable was iterated twice for a forest with a root that has two
\* children, one of them a dependency
C15_Witness ==
    /\ fPc = "made"
    /\ Len(fYielded) = 2
    /\ \E r \in Range(fYielded[2]) : Len(fNodes[r].children) = 2
    /\ \E x \in DOMAIN fNodes : fNodes[x].dependents # <<>> /\ fNodes[x].parent # 0

\* the issue has no parent or its parent id is the id of no input issue
RootIssue(iss, i) == iss[i].parent = 0 \/ \A k \in DOMAIN iss : iss[k].id # iss[i].parent

\* C16: makeForest does not fail on an issue whose non-empty parent id is the
\* id of no input issue and returns the node of that issue as a root (a node
\* is a root iff its issue has no parent or the parent is absent from the
\* input); a dependency id absent from the input does not make it fail either.
C16_AbsentIdsTolerated ==
    /\ fPc # "threw"
    /\ ForestMade =>
        \A k \in DOMAIN fYielded :
            fYielded[k] = SelectSeq([i \in 1..Len(fIssues) |-> i], LAMBDA i : RootIssue(fIssues, i))

\* the order in which traverseIssueForest calls leaveNode, for the node list `nodes`
RECURSIVE LeaveOrder(_, _)
LeaveOrder(iss, nodes) ==
    IF nodes = <<>> THEN <<>>
    ELSE LeaveOrder(iss, NodeChildren(iss, Head(nodes))) \o <<Head(nodes)>>
                                                         \o LeaveOrder(iss, Tail(nodes))

\* the nodes for which the visitor function was called, in the order of the calls
CalledFor(calls, visitor) ==
    LET idx == SelectSeq([k \in 1..Len(calls) |-> k], LAMBDA k : calls[k][1] = visitor)
    IN  [k \in 1..Len(idx) |-> calls[idx[k]][2]]

CallsOf(visitor, node) == {k \in DOMAIN fCalls : fCalls[k] = <<visitor, node>>}

ParentsAcyclic(iss) ==
    IsAcyclic([i \in 1..Len(iss) |-> IF iss[i].parent = 0 THEN {} ELSE {iss[i].parent}])

\* the nodes of the trees under the roots
UnderRoots(iss) == UNION {Subtree(iss, r) : r \in Range(RootNodes(iss))}

TraversedInOrder ==
    /\ CalledFor(fCalls, "enter") = EnterOrder(fIssues, RootNodes(fIssues))
    /\ CalledFor(fCalls, "leave") = LeaveOrder(fIssues, RootNodes(fIssues))
    /\ \A n \in DOMAIN fNodes :
        /\ Cardinality(CallsOf("enter", n)) = (IF n \in UnderRoots(fIssues) THEN 1 ELSE 0)
        /\ Cardinality(CallsOf("leave", n)) = (IF n \in UnderRoots(fIssues) THEN 1 ELSE 0)
        /\ ParentsAcyclic(fIssues) => n \in UnderRoots(fIssues)
    /\ \A n \in UnderRoots(fIssues) : \A d \in Subtree(fIssues, n) \ {n} :
        /\ \A k \in CallsOf("enter", n), m \in CallsOf("enter", d) : k < m
        /\ \A k \in CallsOf("leave", n), m \in CallsOf("leave", d) : m < k
    /\ \A n \in UnderRoots(fIssues) :
        \A k \in CallsOf("enter", n), m \in CallsOf("leave", n) : k < m

\* C17: traverseIssueForest terminates and has then called enterNode once
\* and leaveNode once for every node of the forest, enterNode(n) before
\* enterNode of every descendant of n and leaveNode(n) after leaveNode of
\* every descendant, roots and siblings in input order: the enter sequence is
\* the pre-order and the leave sequence the post-order of the forest.
C17_TraversalOrder ==
    /\ (fPc = "traversing") ~> (fPc = "done")
    /\ [](fPc = "done" => TraversedInOrder)
    /\ [](fPc = "traversing" =>
            \A n \in DOMAIN fNodes :
                Cardinality(CallsOf("enter", n)) <= 1 /\ Cardinality(CallsOf("leave", n)) <= 1)

\* a traversal of three issues that went two levels down has returned
C17_Witness ==
    /\ fPc = "done"
    /\ ParentsAcyclic(fIssues)
    /\ Len(fCalls) = 6
    /\ \E n \in DOMAIN fNodes : fNodes[n].parent # 0 /\ fNodes[fNodes[n].parent].parent # 0
    /\ CalledFor(fCalls, "enter") # CalledFor(fCalls, "leave")

-----------------------------------------------------------------------------
(* scheduleUnresolved: the inputs *)

DefaultOptions ==
    [contributors |-> <<[id |-> "c1", minutesPerWeek |-> 1, numMembers |-> 1]>>,
     minutesPerWeek |-> 1, resolutionMs |-> 1, minActivityDuration |-> 1,
     predictionStartTimeMs |-> 0]

\* parent relations without cycle over n issues (0: no parent)
ParentFns(n) ==
    {f \in [1..n -> 0..n] :
        IsAcyclic([i \in 1..n |-> IF f[i] = 0 THEN {} ELSE {f[i]}])}

\* dependency relations without cycle over n issues
DependencyFns(n) == {f \in [1..n -> SUBSET (1..n)] : IsAcyclic(f)}

\* closed issue sets of n issues with acyclic parent and dependency relation, every issue
\* with remaining effort and the defaults of newDefaultSchedulableIssue otherwise
StructuredIssue(n, pf, df) ==
    [i \in 1..n |->
        [parent |-> pf[i], dependencies |-> SetToSeq(df[i]), remainingEffortMs |-> 1,
         remainingWaitTimeMs |-> 0, splittable |-> FALSE, assignee |-> ""]]

StructuredIssues(n) == {StructuredIssue(n, pf, df) : pf \in ParentFns(n), df \in DependencyFns(n)}

NoInstance == [jobs |-> <<>>, machineSpeeds |-> <<>>, machineIdxToContributorIdx |-> <<>>,
               minFragmentSize |-> 0]

-----------------------------------------------------------------------------
(* scheduleUnresolved: the steps *)

\* lines 45-48: build the instance and hand it to the solver; the assertion of
\* makeJobDescriptors throws when the traversal did not reach every issue
ScheduleUnresolvedCall ==
    /\ schedPc = "start"
    /\ IF TraversalVisitedAll(issues)
       THEN /\ instance' = makeSchedulingInstance(issues, options)
            /\ schedPc' = "awaiting"
       ELSE /\ instance' = instance
            /\ schedPc' = "assertion"
    /\ UNCHANGED <<issues, options, machineSchedule, schedule>>
    /\ UNCHANGED varsNotSched

InitJobs ==
    /\ \E n \in 1..MaxIssues : \E df \in DependencyFns(n) : \E pf \in ParentFns(n) :
            issues = StructuredIssue(n, pf, df)
    /\ options = DefaultOptions
    /\ schedPc = "start"
    /\ instance = NoInstance
    /\ machineSchedule = <<>>
    /\ schedule = <<>>
    /\ IdleNotSched

NextJobs == ScheduleUnresolvedCall

SpecJobs == InitJobs /\ [][NextJobs]_vars

-----------------------------------------------------------------------------
(* Claims about the job graph *)

\* C1: if issue A lists issue B as a dependency, the main job of A and of every
\* transitive sub-issue of A reaches, over job dependencies, the main job of B and
\* of every transitive sub-issue of B.
C1_DependenciesTransitive ==
    (schedPc = "awaiting" /\ IsAcyclic(WaitsFor(issues))) =>
        \A a \in 1..Len(issues) : \A b \in Range(issues[a].dependencies) :
            \A x \in Subtree(issues, a) : \A y \in Subtree(issues, b) :
                jobIdx(issues, y) \in
                    ReachPlus(JobDependencyEdges(instance.jobs), jobIdx(issues, x))


-----------------------------------------------------------------------------
(* The external solver (ProjectPlanningJs.computeScheduleAsync): any answer that *)
(* respects its contract, within the horizon MaxSolverTime                       *)

SolverIntervals == {iv \in (0..MaxSolverTime) \X (0..MaxSolverTime) : iv[1] < iv[2]}

WorkFragments(inst) ==
    {[machine |-> m, start |-> iv[1], end |-> iv[2], isWaiting |-> FALSE] :
        m \in 1..Len(inst.machineSpeeds), iv \in SolverIntervals}

\* amount of a job's size that a work fragment processes
Processed(inst, f) == (f.end - f.start) * inst.machineSpeeds[f.machine]

RECURSIVE SetSum(_, _)
SetSum(inst, W) ==
    IF W = {} THEN 0
    ELSE LET f == CHOOSE x \in W : TRUE
         IN  Processed(inst, f) + SetSum(inst, W \ {f})

\* the subsets of S with at most k elements
RECURSIVE SubsetsUpTo(_, _)
SubsetsUpTo(S, k) ==
    IF k = 0 THEN {{}}
    ELSE LET P == SubsetsUpTo(S, k - 1)
         IN  P \cup {W \cup {f} : W \in P, f \in S}

Overlap(f, g) == f.start < g.end /\ g.start < f.end

\* the sets of work fragments the contract allows for job j, taken alone
JobWorkSets(inst, j) ==
    LET job == inst.jobs[j]
    IN  {W \in SubsetsUpTo(WorkFragments(inst), MaxWorkFragments) :
            /\ SetSum(inst, W) = job.size
            /\ job.preAssignment # 0 => \A f \in W : f.machine = job.preAssignment
            /\ job.splitting # "MULTIPLE_MACHINES" => \A f, g \in W : f.machine = g.machine
            /\ \A f, g \in W : (f # g /\ f.machine = g.machine) => ~Overlap(f, g)
            /\ Cardinality(W) > 1 => \A f \in W : Processed(inst, f) >= inst.minFragmentSize}

\* fragments of a job in the order the solver lists them: by start, then by machine
RECURSIVE SortFragments(_)
SortFragments(W) ==
    IF W = {} THEN <<>>
    ELSE LET f == CHOOSE x \in W : \A y \in W :
                    x.start < y.start \/ (x.start = y.start /\ x.machine <= y.machine)
         IN  <<f>> \o SortFragments(W \ {f})

\* the fragment lists the contract allows for job j, taken alone: the work fragments,
\* followed by one waiting fragment of the delivery time if there is one
JobSchedules(inst, j) ==
    LET job == inst.jobs[j]
    IN  IF job.deliveryTime = 0
        THEN {SortFragments(W) : W \in JobWorkSets(inst, j)}
        ELSE UNION {
            IF W = {}
            THEN {<<[machine |-> m, start |-> t, end |-> t + job.deliveryTime, isWaiting |-> TRUE]>> :
                    m \in {k \in 1..Len(inst.machineSpeeds) :
                                job.preAssignment = 0 \/ job.preAssignment = k},
                    t \in 0..(MaxSolverTime - job.deliveryTime)}
            ELSE LET last == CHOOSE f \in W : \A g \in W :
                                g.end < f.end \/ (g.end = f.end /\ g.machine >= f.machine)
                 IN  IF last.end + job.deliveryTime > MaxSolverTime THEN {}
                     ELSE {SortFragments(W) \o
                            <<[machine |-> last.machine, start |-> last.end,
                               end |-> last.end + job.deliveryTime, isWaiting |-> TRUE]>>}
            : W \in JobWorkSets(inst, j)}

\* no machine works on two fragments at a time (waiting does not occupy a machine)
MachinesExclusive(ms) ==
    \A j, k \in 1..Len(ms) : \A a \in 1..Len(ms[j]) : \A b \in 1..Len(ms[k]) :
        (<<j, a>> # <<k, b>> /\ ~ms[j][a].isWaiting /\ ~ms[k][b].isWaiting
            /\ ms[j][a].machine = ms[k][b].machine) => ~Overlap(ms[j][a], ms[k][b])

\* the time job j is complete, delivery time included (the job graph is acyclic)
RECURSIVE JobDone(_, _, _)
JobDone(inst, ms, j) ==
    LET ends == {ms[j][a].end : a \in 1..Len(ms[j])}
                    \cup {JobDone(inst, ms, d) : d \in Range(inst.jobs[j].dependencies)}
                    \cup {0}
    IN  CHOOSE e \in ends : \A x \in ends : x <= e

\* all dependencies are complete before a dependent starts
DependenciesRespected(inst, ms) ==
    \A j \in 1..Len(ms) : \A a \in 1..Len(ms[j]) :
        \A d \in Range(inst.jobs[j].dependencies) : JobDone(inst, ms, d) <= ms[j][a].start

\* schedules of the jobs 1..j, one fragment list per job
RECURSIVE PartialSchedules(_, _)
PartialSchedules(inst, j) ==
    IF j = 0 THEN {<<>>}
    ELSE {ms \in {Append(p, js) : p \in PartialSchedules(inst, j - 1), js \in JobSchedules(inst, j)} :
            MachinesExclusive(ms)}

JobGraphCyclic(inst) == ~IsAcyclic(JobDependencyEdges(inst.jobs))

SolverSchedules(inst) ==
    IF JobGraphCyclic(inst) THEN {}
    ELSE {ms \in PartialSchedules(inst, Len(inst.jobs)) : DependenciesRespected(inst, ms)}

-----------------------------------------------------------------------------
(* scheduleUnresolved: translation of the solver's schedule, lines 49-66 *)

MINUTES_PER_WEEK_REAL_TIME == 10080

\* Math.ceil(predictionStartTimeMs + timestamp * resolutionMs * realTimeFactor)
scheduleTimestampToEpochTime(opts, timestamp) ==
    opts.predictionStartTimeMs
        + CeilDiv(timestamp * opts.resolutionMs * MINUTES_PER_WEEK_REAL_TIME, opts.minutesPerWeek)

IssueActivityOf(inst, opts, jobFragment) ==
    [assignee |-> opts.contributors[inst.machineIdxToContributorIdx[jobFragment.machine]].id,
     start |-> scheduleTimestampToEpochTime(opts, jobFragment.start),
     end |-> scheduleTimestampToEpochTime(opts, jobFragment.end),
     isWaiting |-> jobFragment.isWaiting]

\* schedule[i]: the activities of the fragments of the i-th job
TranslateScheduleByJob(iss, inst, opts, ms) ==
    [i \in 1..Len(iss) |-> [a \in 1..Len(ms[i]) |-> IssueActivityOf(inst, opts, ms[i][a])]]

\* schedule[i]: the activities of the fragments of every job of issue i, in job order
TranslateSchedule(iss, inst, opts, ms) ==
    [i \in 1..Len(iss) |->
        Flatten([j \in 1..Len(ms) |->
            IF inst.jobs[j].issueIdx = i
            THEN [a \in 1..Len(ms[j]) |-> IssueActivityOf(inst, opts, ms[j][a])]
            ELSE <<>>])]

\* the solver resolves the promise; lines 49-66 build the schedule
SolverResolve ==
    /\ schedPc = "awaiting"
    /\ \E ms \in SolverSchedules(instance) :
        /\ machineSchedule' = ms
        /\ schedule' = TranslateSchedule(issues, instance, options, ms)
    /\ schedPc' = "resolved"
    /\ UNCHANGED <<issues, options, instance>>
    /\ UNCHANGED varsNotSched

\* the solver rejects an instance with a cyclic dependency graph; the rejection is
\* passed on to the caller
SolverReject ==
    /\ schedPc = "awaiting"
    /\ JobGraphCyclic(instance)
    /\ schedPc' = "rejected"
    /\ UNCHANGED <<issues, options, instance, machineSchedule, schedule>>
    /\ UNCHANGED varsNotSched


-----------------------------------------------------------------------------
(* scheduleUnresolved with the solver: inputs and specification *)

\* contributor lists: one or two contributors, the first one with one or two members,
\* each member available for a full regular week
ContributorLists(minutesPerWeek) ==
    {[i \in 1..n |-> [id |-> IF i = 1 THEN "c1" ELSE "c2", minutesPerWeek |-> minutesPerWeek,
                      numMembers |-> IF i = 1 THEN members ELSE 1]] :
        n \in 1..2, members \in 1..2}

\* minutesPerWeek: the default 5 * 8 * 60, and a week of 14 days' minutes (real-time
\* factor 1/2); resolutionMs: 1 or 2
SchedulingOptionsSet ==
    {[contributors |-> cs, minutesPerWeek |-> w[1], resolutionMs |-> w[2],
      minActivityDuration |-> 1, predictionStartTimeMs |-> 1000] :
        w \in {<<2400, 1>>, <<2400, 2>>, <<20160, 1>>},
        cs \in ContributorLists(2400) \cup ContributorLists(20160)}

\* issue lists for the solver: any parent of a lower position, any dependencies; the
\* first issue with any wait time and possibly assigned to the last contributor
SchedulableIssues(n, opts) ==
    {[i \in 1..n |->
        [parent |-> pf[i], dependencies |-> SetToSeq(df[i]), remainingEffortMs |-> ef[i],
         remainingWaitTimeMs |-> IF i = 1 THEN w ELSE 0,
         splittable |-> sf[i],
         assignee |-> IF i = 1 /\ assigned
                      THEN opts.contributors[Len(opts.contributors)].id ELSE ""]] :
        pf \in {f \in [1..n -> 0..n] : \A i \in 1..n : f[i] < i},
        df \in {f \in [1..n -> SUBSET (1..n)] : \A i \in 1..n : i \notin f[i]},
        ef \in [1..n -> 0..MaxEffortMs],
        sf \in [1..n -> BOOLEAN],
        w \in 0..MaxWaitMs,
        assigned \in BOOLEAN}

InitSched ==
    /\ options \in {o \in SchedulingOptionsSet :
                        \A i \in 1..Len(o.contributors) :
                            o.contributors[i].minutesPerWeek = o.minutesPerWeek}
    /\ issues \in UNION {SchedulableIssues(n, options) : n \in 1..MaxSchedIssues}
    /\ schedPc = "start"
    /\ instance = NoInstance
    /\ machineSchedule = <<>>
    /\ schedule = <<>>
    /\ IdleNotSched

NextSched == ScheduleUnresolvedCall \/ SolverResolve \/ SolverReject

SpecSched == InitSched /\ [][NextSched]_vars

\* C3: the returned schedule contains no two activities of the same issue with the
\* same assignee whose half-open intervals [start, end) overlap.
C3_NoOverlapSameAssignee ==
    schedPc = "resolved" =>
        \A i \in 1..Len(schedule) : \A a, b \in 1..Len(schedule[i]) :
            (a # b /\ schedule[i][a].assignee = schedule[i][b].assignee) =>
                ~Overlap(schedule[i][a], schedule[i][b])


\* the issues that have sub-issues
IssuesWithChildren(iss) == {i \in 1..Len(iss) : \E k \in 1..Len(iss) : iss[k].parent = i}

\* C19: in the job list every dummy job (start-to-start, finish-to-finish)
\* comes before every main job, and the main jobs come in input issue order
\* whatever the parent/child structure: with P issues that have children the
\* main job of the i-th input issue is job 2P + i.
C19_DummyJobsFirst ==
    schedPc = "awaiting" =>
        LET P == Cardinality(IssuesWithChildren(issues))
        IN  /\ Len(instance.jobs) = 2 * P + Len(issues)
            /\ \A j \in 1..(2 * P) : instance.jobs[j].type \in {"START_TO_START", "FINISH_TO_FINISH"}
            /\ \A i \in 1..Len(issues) :
                /\ instance.jobs[2 * P + i].type = "MAIN"
                /\ instance.jobs[2 * P + i].issueIdx = i
                /\ jobIdx(issues, i) = 2 * P + i
            /\ \A j, m \in 1..Len(instance.jobs) :
                (instance.jobs[j].type # "MAIN" /\ instance.jobs[m].type = "MAIN") => j < m

\* three issues, each the parent of the one before it in the input
C19_Witness ==
    /\ schedPc = "awaiting"
    /\ Len(issues) = 3
    /\ issues[1].parent = 2 /\ issues[2].parent = 3 /\ issues[3].parent = 0
    /\ Len(instance.jobs) = 7
    /\ instance.jobs[5].issueIdx = 1

\* the contributors with that id
ContributorsNamed(opts, assignee) ==
    {c \in 1..Len(opts.contributors) : opts.contributors[c].id = assignee}

\* C20: for every contributor list, also with numMembers different from 1,
\* the preAssignment of the main job of an issue assigned to contributor c is
\* a machine of c, that is machineIdxToContributorIdx[preAssignment] is the
\* index of c, and all activities of the issue are reported with assignee c;
\* an issue with an empty assignee or one that is no contributor gets no
\* pre-assignment.
C20_PreAssignedToContributor ==
    schedPc \in {"awaiting", "resolved"} =>
        \A i \in 1..Len(issues) :
            LET job == instance.jobs[jobIdx(issues, i)]
            IN  IF ContributorsNamed(options, issues[i].assignee) # {}
                THEN /\ job.preAssignment \in DOMAIN instance.machineIdxToContributorIdx
                     /\ instance.machineIdxToContributorIdx[job.preAssignment]
                            \in ContributorsNamed(options, issues[i].assignee)
                     /\ schedPc = "resolved" =>
                            \A a \in 1..Len(schedule[i]) : schedule[i][a].assignee = issues[i].assignee
                ELSE job.preAssignment = 0

\* C21: the returned schedule has one activity list per input issue, in
\* input order; the activities of list i are those of the fragments of the
\* main job of issue i, in their order; no fragment of a dummy job yields an
\* activity; an issue without remaining effort and wait time has an empty list.
C21_OneListPerIssue ==
    schedPc = "resolved" =>
        /\ Len(schedule) = Len(issues)
        /\ \A i \in 1..Len(issues) :
            LET fragments == machineSchedule[jobIdx(issues, i)]
            IN  /\ instance.jobs[jobIdx(issues, i)].type = "MAIN"
                /\ schedule[i] = [a \in 1..Len(fragments) |-> IssueActivityOf(instance, options, fragments[a])]
                /\ (issues[i].remainingEffortMs = 0 /\ issues[i].remainingWaitTimeMs = 0)
                    => schedule[i] = <<>>
        /\ \A j \in 1..Len(instance.jobs) :
            instance.jobs[j].type # "MAIN" => machineSchedule[j] = <<>>

\* an issue with a sub-issue: dummy jobs exist, the issue has activities, the
\* sub-issue has neither effort nor activities
C21_Witness ==
    /\ schedPc = "resolved"
    /\ Len(issues) = 2
    /\ issues[2].parent = 1
    /\ issues[2].remainingEffortMs = 0
    /\ Len(instance.jobs) = 4
    /\ Len(schedule[1]) = 2
    /\ schedule[2] = <<>>

-----------------------------------------------------------------------------
(* scheduleUnresolved for every closed issue set *)

\* closed issue sets of n issues: any parent and any dependencies among the
\* issues, cycles included
ClosedIssues(n) ==
    {[i \in 1..n |->
        [parent |-> pf[i], dependencies |-> SetToSeq(df[i]), remainingEffortMs |-> 1,
         remainingWaitTimeMs |-> 0, splittable |-> FALSE, assignee |-> ""]] :
        pf \in [1..n -> 0..n], df \in [1..n -> SUBSET (1..n)]}

InitClosed ==
    /\ issues \in UNION {ClosedIssues(n) : n \in 1..MaxClosedIssues}
    /\ options = DefaultOptions
    /\ schedPc = "start"
    /\ instance = NoInstance
    /\ machineSchedule = <<>>
    /\ schedule = <<>>
    /\ IdleNotSched

NextClosed == ScheduleUnresolvedCall \/ SolverResolve \/ SolverReject

SpecClosed == InitClosed /\ [][NextClosed]_vars

\* C18: for every closed issue set, also with a cycle in the parent or the
\* dependency relation, makeSchedulingInstance completes without throwing and
\* hands an instance to the solver; a cycle fails only by the solver
\* rejecting the instance.
C18_ReductionNeverFails ==
    /\ schedPc # "assertion"
    /\ schedPc \in {"awaiting", "resolved", "rejected"} =>
        Len(instance.jobs) >= Len(issues)

-----------------------------------------------------------------------------
(* appendSchedule on a heap of objects. An object is an issue (holding the      *)
(* references of its activities), an activity or a warning; a reference is the  *)
(* object's index in the heap.                                                  *)

\* deepClone of objects that hold no references (activities, warnings)
RECURSIVE CloneFlat(_, _)
CloneFlat(h, refs) ==
    IF refs = <<>> THEN [heap |-> h, refs |-> <<>>]
    ELSE LET rest == CloneFlat(Append(h, h[Head(refs)]), Tail(refs))
         IN  [heap |-> rest.heap, refs |-> <<Len(h) + 1>> \o rest.refs]

\* deepClone of issues: the activities are cloned, then the issue
RECURSIVE CloneIssues(_, _)
CloneIssues(h, refs) ==
    IF refs = <<>> THEN [heap |-> h, refs |-> <<>>]
    ELSE LET acts == CloneFlat(h, h[Head(refs)].issueActivities)
             h2 == Append(acts.heap, [h[Head(refs)] EXCEPT !.issueActivities = acts.refs])
             rest == CloneIssues(h2, Tail(refs))
         IN  [heap |-> rest.heap, refs |-> <<Len(h2)>> \o rest.refs]

\* a clone that copies the issue objects and shares their activities
RECURSIVE CloneIssuesShallow(_, _)
CloneIssuesShallow(h, refs) ==
    IF refs = <<>> THEN [heap |-> h, refs |-> <<>>]
    ELSE LET h2 == Append(h, h[Head(refs)])
             rest == CloneIssuesShallow(h2, Tail(refs))
         IN  [heap |-> rest.heap, refs |-> <<Len(h2)>> \o rest.refs]

deepCloneShallow(h, plan) ==
    LET i == CloneIssuesShallow(h, plan.issues)
        w == CloneFlat(i.heap, plan.warnings)
    IN  [heap |-> w.heap, plan |-> [issues |-> i.refs, warnings |-> w.refs]]

\* deepClone(projectPlan)
deepClone(h, plan) ==
    LET i == CloneIssues(h, plan.issues)
        w == CloneFlat(i.heap, plan.warnings)
    IN  [heap |-> w.heap, plan |-> [issues |-> i.refs, warnings |-> w.refs]]

\* keeps the activities that start before the division without cutting them
ClipExistingUncut(h, refs, t) ==
    [heap |-> h, kept |-> SelectSeq(refs, LAMBDA a : h[a].start < t)]

\* lines 98-108: keep the activities that start before the division, cut at the division
RECURSIVE ClipExisting(_, _, _)
ClipExisting(h, refs, t) ==
    IF refs = <<>> THEN [heap |-> h, kept |-> <<>>]
    ELSE IF h[Head(refs)].start < t
         THEN LET rest == ClipExisting([h EXCEPT ![Head(refs)].end = Min(h[Head(refs)].end, t)],
                                       Tail(refs), t)
              IN  [heap |-> rest.heap, kept |-> <<Head(refs)>> \o rest.kept]
         ELSE ClipExisting(h, Tail(refs), t)

\* the first activity of the assignee in the list
FirstOfAssignee(h, list, assignee) ==
    LET idx == {k \in DOMAIN list : h[list[k]].assignee = assignee}
    IN  IF idx = {} THEN 0 ELSE list[CHOOSE k \in idx : \A m \in idx : k <= m]

\* the last element of assigneeToActivities.get(assignee), 0 if there is none
LastOfAssignee(h, list, assignee) ==
    LET idx == {k \in DOMAIN list : h[list[k]].assignee = assignee}
    IN  IF idx = {} THEN 0 ELSE list[CHOOSE k \in idx : \A m \in idx : m <= k]

\* adds every scheduled activity, also those that end at or before the division
RECURSIVE AddScheduledKeepingAll(_, _, _, _)
AddScheduledKeepingAll(h, list, srefs, t) ==
    IF srefs = <<>> THEN [heap |-> h, list |-> list]
    ELSE LET scheduledActivity == h[Head(srefs)]
             newActivity == [scheduledActivity EXCEPT !.start = Max(scheduledActivity.start, t)]
             last == LastOfAssignee(h, list, scheduledActivity.assignee)
         IN  IF /\ last # 0
                /\ h[last].end = newActivity.start
                /\ h[last].isWaiting = newActivity.isWaiting
             THEN AddScheduledKeepingAll([h EXCEPT ![last].end = newActivity.end], list, Tail(srefs), t)
             ELSE AddScheduledKeepingAll(Append(h, newActivity), Append(list, Len(h) + 1),
                                         Tail(srefs), t)

\* adds every scheduled activity that ends after the division as a new activity
RECURSIVE AddScheduledSeparately(_, _, _, _)
AddScheduledSeparately(h, list, srefs, t) ==
    IF srefs = <<>> THEN [heap |-> h, list |-> list]
    ELSE LET scheduledActivity == h[Head(srefs)]
             newActivity == [scheduledActivity EXCEPT !.start = Max(scheduledActivity.start, t)]
         IN  IF scheduledActivity.end <= t
             THEN AddScheduledSeparately(h, list, Tail(srefs), t)
             ELSE AddScheduledSeparately(Append(h, newActivity), Append(list, Len(h) + 1),
                                         Tail(srefs), t)

\* lines 121-138: merge or add the scheduled activities that end after the division
RECURSIVE AddScheduled(_, _, _, _)
AddScheduled(h, list, srefs, t) ==
    IF srefs = <<>> THEN [heap |-> h, list |-> list]
    ELSE LET scheduledActivity == h[Head(srefs)]
             newActivity == [scheduledActivity EXCEPT !.start = Max(scheduledActivity.start, t)]
             last == LastOfAssignee(h, list, scheduledActivity.assignee)
         IN  IF scheduledActivity.end <= t
             THEN AddScheduled(h, list, Tail(srefs), t)
             ELSE IF /\ last # 0
                     /\ h[last].end = newActivity.start
                     /\ h[last].isWaiting = newActivity.isWaiting
                  THEN AddScheduled([h EXCEPT ![last].end = newActivity.end], list, Tail(srefs), t)
                  ELSE AddScheduled(Append(h, newActivity), Append(list, Len(h) + 1), Tail(srefs), t)

\* Intl.Collator('en') on the assignee names of the model
CollatorRank(assignee) == CASE assignee = "" -> 0 [] assignee = "a" -> 1 [] OTHER -> 2

\* the comparator of lines 140-145 is negative
SortsBefore(x, y) ==
    x.end < y.end \/ (x.end = y.end /\ CollatorRank(x.assignee) < CollatorRank(y.assignee))

\* Array.prototype.sort with that comparator (stable)
RECURSIVE SortActivities(_, _)
SortActivities(h, list) ==
    IF list = <<>> THEN <<>>
    ELSE LET sorted == SortActivities(h, SubSeq(list, 1, Len(list) - 1))
             r == list[Len(list)]
             pos == Cardinality({k \in DOMAIN sorted : ~SortsBefore(h[r], h[sorted[k]])})
         IN  SubSeq(sorted, 1, pos) \o <<r>> \o SubSeq(sorted, pos + 1, Len(sorted))

\* the body of the loop over the issues, lines 94-145
ProcessIssue(h, issueRef, srefs, t) ==
    LET clipped == ClipExisting(h, h[issueRef].issueActivities, t)
        added == AddScheduled(clipped.heap, clipped.kept, srefs, t)
    IN  [added.heap EXCEPT ![issueRef].issueActivities = SortActivities(added.heap, added.list)]

RECURSIVE ProcessIssues(_, _, _, _, _)
ProcessIssues(h, issueRefs, sched, issueIdx, t) ==
    IF issueIdx > Len(issueRefs) THEN h
    ELSE ProcessIssues(ProcessIssue(h, issueRefs[issueIdx], sched[issueIdx], t),
                       issueRefs, sched, issueIdx + 1, t)

DifferentNumberOfIssues ==
    "The given project plan and the new schedule have a different number of issues."

\* fails only for a plan with more issues than the schedule
appendScheduleOfLonger(h, plan, sched, t) ==
    IF Len(plan.issues) > Len(sched)
    THEN [heap |-> h, result |-> [kind |-> "failure", message |-> DifferentNumberOfIssues]]
    ELSE LET c == deepClone(h, plan)
         IN  [heap |-> ProcessIssues(c.heap, c.plan.issues, SubSeq(sched, 1, Len(plan.issues)), 1, t),
              result |-> [kind |-> "plan", plan |-> c.plan]]

appendSchedule(h, plan, sched, t) ==
    IF Len(plan.issues) # Len(sched)
    THEN [heap |-> h, result |-> [kind |-> "failure", message |-> DifferentNumberOfIssues]]
    ELSE LET c == deepClone(h, plan)
         IN  [heap |-> ProcessIssues(c.heap, c.plan.issues, sched, 1, t),
              result |-> [kind |-> "plan", plan |-> c.plan]]


(* Arguments of appendSchedule *)

ApAssignees == {"a", "b"}

\* IssueActivity values; an activity ends after it starts
ApActivities ==
    {[assignee |-> who, start |-> st, end |-> en, isWaiting |-> w] :
        who \in ApAssignees, st \in 0..MaxApTime, en \in 0..MaxApTime, w \in BOOLEAN} \
    {x \in [assignee : ApAssignees, start : 0..MaxApTime, end : 0..MaxApTime, isWaiting : BOOLEAN] :
        x.start >= x.end}

ApListsOfLen(n) == [1..n -> ApActivities]

\* lists of the activities of one assignee
ApAssigneeListsOfLen(n) == [1..n -> {x \in ApActivities : x.assignee = "a"}]

\* plans and schedules of several issues, each issue with at most one
\* activity: the issues in S have one, given by f
ApPlanLists(np, S, f) == [k \in 1..np |-> IF <<"plan", k>> \in S THEN <<f[<<"plan", k>>]>> ELSE <<>>]
ApScheduleLists(ns, S, f) ==
    [k \in 1..ns |-> IF <<"schedule", k>> \in S THEN <<f[<<"schedule", k>>]>> ELSE <<>>]

ApIssueSlots(np, ns) == ({"plan"} \X (1..np)) \cup ({"schedule"} \X (1..ns))

\* allocation of activity values as objects
RECURSIVE AllocActivities(_, _)
AllocActivities(h, acts) ==
    IF acts = <<>> THEN [heap |-> h, refs |-> <<>>]
    ELSE LET rest == AllocActivities(Append(h, Head(acts)), Tail(acts))
         IN  [heap |-> rest.heap, refs |-> <<Len(h) + 1>> \o rest.refs]

RECURSIVE AllocSchedule(_, _)
AllocSchedule(h, lists) ==
    IF lists = <<>> THEN [heap |-> h, refs |-> <<>>]
    ELSE LET acts == AllocActivities(h, Head(lists))
             rest == AllocSchedule(acts.heap, Tail(lists))
         IN  [heap |-> rest.heap, refs |-> <<acts.refs>> \o rest.refs]

RECURSIVE AllocIssues(_, _, _)
AllocIssues(h, lists, issueIdx) ==
    IF lists = <<>> THEN [heap |-> h, refs |-> <<>>]
    ELSE LET acts == AllocActivities(h, Head(lists))
             h2 == Append(acts.heap, [id |-> issueIdx, issueActivities |-> acts.refs])
             rest == AllocIssues(h2, Tail(lists), issueIdx + 1)
         IN  [heap |-> rest.heap, refs |-> <<Len(h2)>> \o rest.refs]

ApWarning == [description |-> "warning", issueId |-> "undefined"]

ApArguments(planLists, scheduleLists) ==
    LET i == AllocIssues(<<>>, planLists, 1)
        w == Append(i.heap, ApWarning)
        s == AllocSchedule(w, scheduleLists)
    IN  [heap |-> s.heap,
         projectPlan |-> [issues |-> i.refs, warnings |-> <<Len(w)>>],
         schedule |-> s.refs]

AppendScheduleCall ==
    /\ apPc = "start"
    /\ LET r == appendSchedule(apHeap, apPlan, apSchedule, apDivision)
       IN  /\ apHeap' = r.heap
           /\ apResult' = r.result
    /\ apPc' = "returned"
    /\ UNCHANGED <<apHeap0, apPlan, apSchedule, apDivision>>
    /\ UNCHANGED varsNotAppend

\* the state in which appendSchedule is called with the given arguments
ApCalledWith(planLists, scheduleLists) ==
    LET args == ApArguments(planLists, scheduleLists)
    IN  /\ apHeap = args.heap
        /\ apHeap0 = args.heap
        /\ apPlan = args.projectPlan
        /\ apSchedule = args.schedule

\* a plan of one issue and a schedule for it with at most MaxApActs activities
\* together, or plans and schedules of any number of issues (also of different
\* numbers) with at most MaxApActs - 1 activities together
InitAppend ==
    /\ \/ \E p \in 0..MaxApActs : \E q \in 0..(MaxApActs - p) :
            \E pl \in ApListsOfLen(p), sl \in ApListsOfLen(q) : ApCalledWith(<<pl>>, <<sl>>)
       \/ \E p \in 1..MaxApActs :
            \E pl \in ApAssigneeListsOfLen(p), sl \in ApAssigneeListsOfLen(MaxApActs + 1 - p) :
                ApCalledWith(<<pl>>, <<sl>>)
       \/ \E np \in 0..MaxApIssues, ns \in 0..MaxApIssues :
            \E S \in SubsetsUpTo(ApIssueSlots(np, ns), MaxApActs - 1) :
                \E f \in [S -> ApActivities] :
                    ApCalledWith(ApPlanLists(np, S, f), ApScheduleLists(ns, S, f))
    /\ apDivision \in 0..MaxApTime
    /\ apResult = <<>>
    /\ apPc = "start"
    /\ IdleNotAppend

NextAppend == AppendScheduleCall

SpecAppend == InitAppend /\ [][NextAppend]_vars

(* Views of the heap *)

\* the activities of an issue list, as values
ActivityValues(h, issueRef) == [k \in DOMAIN h[issueRef].issueActivities |-> h[h[issueRef].issueActivities[k]]]

\* every object reachable from a project plan
PlanObjects(h, plan) ==
    Range(plan.issues) \cup Range(plan.warnings)
        \cup UNION {Range(h[i].issueActivities) : i \in Range(plan.issues)}


ApReturnedPlan == apPc = "returned" /\ apResult.kind = "plan"

\* the activities of issue k: of the plan argument, of the schedule argument, of the result
ApPlanActivities(k) == Range(ActivityValues(apHeap0, apPlan.issues[k]))
ApScheduledActivities(k) == {apHeap0[r] : r \in Range(apSchedule[k])}
ApResultActivities(k) == Range(ActivityValues(apHeap, apResult.plan.issues[k]))

Straddles(x, t) == x.start < t /\ t < x.end

SameAssigneeAndStatus(x, y) == x.assignee = y.assignee /\ x.isWaiting = y.isWaiting

\* C2 as stated: no activity of the plan returned by appendSchedule has
\* start < t < end; each ends at or before t or starts at or after t.
C2_NoActivityStraddles ==
    ApReturnedPlan =>
        \A k \in DOMAIN apResult.plan.issues :
            \A x \in ApResultActivities(k) : ~Straddles(x, apDivision)

\* C2, amended: an activity of the plan returned by appendSchedule ends at or
\* before t or starts at or after t, unless it is the merge of a plan activity
\* that reaches t (start < t <= end) with a forecast activity of the same issue,
\* assignee and wait status that covers t (start <= t < end); it then starts
\* where the plan activity starts and ends where a forecast activity of that
\* assignee and wait status ends.
C2_StraddlesOnlyByMerge ==
    ApReturnedPlan =>
        \A k \in DOMAIN apResult.plan.issues :
            \A x \in ApResultActivities(k) :
                Straddles(x, apDivision) =>
                    /\ \E p \in ApPlanActivities(k) :
                        /\ SameAssigneeAndStatus(p, x)
                        /\ p.start = x.start
                        /\ p.end >= apDivision
                    /\ \E s \in ApScheduledActivities(k) :
                        /\ SameAssigneeAndStatus(s, x)
                        /\ s.start <= apDivision
                        /\ apDivision < s.end
                    /\ \E s \in ApScheduledActivities(k) :
                        /\ SameAssigneeAndStatus(s, x)
                        /\ s.end = x.end

\* a returned activity that straddles the division timestamp
C2_Witness ==
    /\ ApReturnedPlan
    /\ \E k \in DOMAIN apResult.plan.issues :
        \E x \in ApResultActivities(k) : Straddles(x, apDivision)

\* C10: after appendSchedule every object of projectPlan and schedule has the
\* value it had before the call, and no object reachable from the returned plan
\* is an object that existed before the call.
C10_ArgumentsUntouched ==
    apPc = "returned" =>
        /\ \A r \in DOMAIN apHeap0 : apHeap[r] = apHeap0[r]
        /\ apResult.kind = "plan" =>
            PlanObjects(apHeap, apResult.plan) \cap DOMAIN apHeap0 = {}

\* a call that cut a plan activity at the division and added a forecast activity
C10_Witness ==
    /\ ApReturnedPlan
    /\ \E k \in DOMAIN apResult.plan.issues :
        /\ \E p \in ApPlanActivities(k) : Straddles(p, apDivision)
        /\ \E s \in ApScheduledActivities(k) : s.end > apDivision
        /\ Cardinality(ApResultActivities(k)) = 2


\* the values of the activities of every issue that appendSchedule returns for
\* argument values, or the failure
ApReturnedValues(planLists, scheduleLists, t) ==
    LET args == ApArguments(planLists, scheduleLists)
        r == appendSchedule(args.heap, args.projectPlan, args.schedule, t)
    IN  IF r.result.kind = "plan"
        THEN [k \in DOMAIN r.result.plan.issues |-> ActivityValues(r.heap, r.result.plan.issues[k])]
        ELSE r.result.message

\* the arguments' activities of issue k as they are before merging: plan
\* activities that start before the division, cut at it, and scheduled
\* activities that end after it, starting no earlier than it
ApClippedPlan(k) ==
    LET kept == SelectSeq(ActivityValues(apHeap0, apPlan.issues[k]), LAMBDA p : p.start < apDivision)
    IN  [i \in DOMAIN kept |-> [kept[i] EXCEPT !.end = Min(kept[i].end, apDivision)]]

ApClippedForecast(k) ==
    LET kept == SelectSeq([i \in DOMAIN apSchedule[k] |-> apHeap0[apSchedule[k][i]]],
                          LAMBDA s : s.end > apDivision)
    IN  [i \in DOMAIN kept |-> [kept[i] EXCEPT !.start = Max(kept[i].start, apDivision)]]

ApResultList(k) == ActivityValues(apHeap, apResult.plan.issues[k])

Occurrences(seq, v) == Cardinality({i \in DOMAIN seq : seq[i] = v})

\* the result of issue k has exactly the clipped activities
ApExactlyClipped(k) ==
    \A v \in Range(ApResultList(k)) \cup Range(ApClippedPlan(k)) \cup Range(ApClippedForecast(k)) :
        Occurrences(ApResultList(k), v) =
            Occurrences(ApClippedPlan(k), v) + Occurrences(ApClippedForecast(k), v)

\* some clipped scheduled activity starts where a clipped activity of its
\* assignee and wait status ends
ApTouching(k) ==
    \E s \in Range(ApClippedForecast(k)) :
        \E y \in Range(ApClippedPlan(k)) \cup Range(ApClippedForecast(k)) :
            SameAssigneeAndStatus(y, s) /\ y.end = s.start

Within(x, y) == y.start <= x.start /\ x.end <= y.end

AppendExample(t) ==
    ApReturnedValues(<<<<[assignee |-> "a", start |-> 50, end |-> 100, isWaiting |-> FALSE]>>>>,
                     <<<<[assignee |-> "a", start |-> 60, end |-> 110, isWaiting |-> FALSE]>>>>, t)

AppendExampleHolds ==
    /\ AppendExample(40) = <<<<[assignee |-> "a", start |-> 60, end |-> 110, isWaiting |-> FALSE]>>>>
    /\ AppendExample(120) = <<<<[assignee |-> "a", start |-> 50, end |-> 100, isWaiting |-> FALSE]>>>>

\* C11 as stated: the returned plan has exactly the plan activities with
\* start < t, each with end min(end, t), and exactly the forecast activities
\* with end > t, each with start max(start, t); plan [50,100) and forecast
\* [60,110) give only [60,110) for division 40 and only [50,100) for 120.
C11_ExactlyClipped ==
    /\ ApReturnedPlan => \A k \in DOMAIN apResult.plan.issues : ApExactlyClipped(k)
    /\ AppendExampleHolds

\* C11, amended: the returned plan is built from exactly the plan activities
\* with start < t, cut to min(end, t), and the forecast activities with
\* end > t, moved to max(start, t). Where no clipped forecast activity starts
\* at the end of a clipped activity of its assignee and wait status, the result
\* has exactly these activities; in every case each returned activity starts
\* where one of them starts and ends where one of them ends, each of them lies
\* within a returned activity of its assignee and wait status, and nothing of
\* a plan activity starting at or after t or a forecast activity ending at or
\* before t appears. The example holds as stated.
C11_ClippedThenMerged ==
    /\ ApReturnedPlan =>
        \A k \in DOMAIN apResult.plan.issues :
            LET clipped == Range(ApClippedPlan(k)) \cup Range(ApClippedForecast(k))
            IN  /\ ~ApTouching(k) => ApExactlyClipped(k)
                /\ Len(ApResultList(k)) <= Len(ApClippedPlan(k)) + Len(ApClippedForecast(k))
                /\ \A x \in Range(ApResultList(k)) :
                    /\ \E y \in clipped : SameAssigneeAndStatus(x, y) /\ y.start = x.start
                    /\ \E y \in clipped : SameAssigneeAndStatus(x, y) /\ y.end = x.end
                /\ \A y \in clipped :
                    \E x \in Range(ApResultList(k)) : SameAssigneeAndStatus(x, y) /\ Within(y, x)
    /\ AppendExampleHolds

\* a plan activity was cut, a forecast activity moved, and one of each dropped
\* or kept apart: two clipped activities in the result and no merge
C11_Witness ==
    /\ ApReturnedPlan
    /\ \E k \in DOMAIN apResult.plan.issues :
        /\ \E p \in ApPlanActivities(k) : Straddles(p, apDivision)
        /\ \E s \in ApScheduledActivities(k) : Straddles(s, apDivision)
        /\ ~ApTouching(k)
        /\ Len(ApResultList(k)) = 2

\* the rule of merging on activity values: a scheduled activity that starts
\* where the assignee's latest activity ends, with its wait status, extends
\* that activity, any other one is added at the end
MergedOrAppended(list, s) ==
    LET idx == {i \in DOMAIN list : list[i].assignee = s.assignee}
        latest == CHOOSE i \in idx : \A m \in idx : m <= i
    IN  IF idx # {} /\ list[latest].end = s.start /\ list[latest].isWaiting = s.isWaiting
        THEN [list EXCEPT ![latest].end = s.end]
        ELSE Append(list, s)

RECURSIVE MergedAll(_, _)
MergedAll(list, forecast) ==
    IF forecast = <<>> THEN list
    ELSE MergedAll(MergedOrAppended(list, Head(forecast)), Tail(forecast))

SameActivities(xs, ys) ==
    \A v \in Range(xs) \cup Range(ys) : Occurrences(xs, v) = Occurrences(ys, v)

ApMergedByRule(k) ==
    SameActivities(ApResultList(k), MergedAll(ApClippedPlan(k), ApClippedForecast(k)))

ApPlanList(k) == ActivityValues(apHeap0, apPlan.issues[k])
ApForecastList(k) == [i \in DOMAIN apSchedule[k] |-> apHeap0[apSchedule[k][i]]]

\* plan activity i reaches the division and scheduled activity j, of its
\* assignee and wait status, covers it
ApMeetAtDivision(k, i, j) ==
    LET p == ApPlanList(k)[i]
        s == ApForecastList(k)[j]
    IN  /\ p.start < apDivision /\ apDivision <= p.end
        /\ s.start <= apDivision /\ apDivision < s.end
        /\ SameAssigneeAndStatus(p, s)

\* one returned activity begins with plan activity i and reaches the end of
\* scheduled activity j
ApOneActivity(k, i, j) ==
    \E x \in Range(ApResultList(k)) :
        /\ SameAssigneeAndStatus(x, ApPlanList(k)[i])
        /\ x.start = ApPlanList(k)[i].start
        /\ x.end >= ApForecastList(k)[j].end

\* plan activity i is the last one of its assignee that starts before the
\* division, scheduled activity j the first one of its assignee that ends
\* after it
ApAdjacentAtDivision(k, i, j) ==
    /\ \A m \in DOMAIN ApPlanList(k) :
        (m > i /\ ApPlanList(k)[m].assignee = ApPlanList(k)[i].assignee)
            => ApPlanList(k)[m].start >= apDivision
    /\ \A m \in DOMAIN ApForecastList(k) :
        (m < j /\ ApForecastList(k)[m].assignee = ApForecastList(k)[j].assignee)
            => ApForecastList(k)[m].end <= apDivision

ActivitiesOverlap(x, y) == x.start < y.end /\ y.start < x.end

\* the normalized form of YouTrackIssue.issueActivities: sorted by end,
\* activities of one assignee do not overlap and differ in isWaiting where
\* one ends at the other's start
SortedByEnd(list) == \A i, j \in DOMAIN list : i < j => list[i].end <= list[j].end

NormalizedActivities(list) ==
    /\ SortedByEnd(list)
    /\ \A i, j \in DOMAIN list :
        (i # j /\ list[i].assignee = list[j].assignee) =>
            /\ ~ActivitiesOverlap(list[i], list[j])
            /\ list[i].end = list[j].start => list[i].isWaiting # list[j].isWaiting

\* C13: for normalized activity lists of the plan and the forecast (sorted by
\* end, same-assignee activities do not overlap, touching same-assignee
\* activities differ in isWaiting), every issue's activity list returned by
\* appendSchedule is normalized in the same sense.
C13_NormalizedPreserved ==
    ApReturnedPlan =>
        \A k \in DOMAIN apResult.plan.issues :
            (NormalizedActivities(ApPlanList(k)) /\ NormalizedActivities(ApForecastList(k)))
                => NormalizedActivities(ApResultList(k))

\* normalized lists with three activities of one assignee, where a plan
\* activity that reaches the division was merged with a forecast activity
C13_Witness ==
    /\ ApReturnedPlan
    /\ \E k \in DOMAIN apResult.plan.issues :
        /\ NormalizedActivities(ApPlanList(k)) /\ NormalizedActivities(ApForecastList(k))
        /\ Len(ApPlanList(k)) + Len(ApForecastList(k)) = 3
        /\ \E i \in DOMAIN ApPlanList(k), j \in DOMAIN ApForecastList(k) :
            ApMeetAtDivision(k, i, j) /\ ApOneActivity(k, i, j)
        /\ Len(ApResultList(k)) < Len(ApClippedPlan(k)) + Len(ApClippedForecast(k))
        /\ NormalizedActivities(ApResultList(k))

ApIssueIds(h, plan) == [k \in DOMAIN plan.issues |-> h[plan.issues[k]].id]

\* C14: for a plan and a schedule with different numbers of issues
\* appendSchedule returns the failure string about the different number of
\* issues and no plan, and leaves both arguments as they were; for equal
\* numbers it returns a plan with the same issues in the same order.
C14_FailureOrSameIssues ==
    apPc = "returned" =>
        IF Len(apPlan.issues) # Len(apSchedule)
        THEN /\ apResult = [kind |-> "failure", message |-> DifferentNumberOfIssues]
             /\ apResult.message =
                    "The given project plan and the new schedule have a different number of issues."
             /\ apHeap = apHeap0
        ELSE /\ apResult.kind = "plan"
             /\ Len(apResult.plan.issues) = Len(apPlan.issues)
             /\ ApIssueIds(apHeap, apResult.plan) = ApIssueIds(apHeap0, apPlan)

\* a plan of two issues and a schedule of one with an activity, rejected
C14_Witness ==
    /\ apPc = "returned"
    /\ Len(apPlan.issues) = 2 /\ Len(apSchedule) = 1
    /\ apSchedule[1] # <<>>
    /\ apResult.kind = "failure"

-----------------------------------------------------------------------------
(* Reconstruction of an issue's activities from its state changes *)

\* const enum ActiveState
ActiveState == {"UNKNOWN", "ACTIVE", "INACTIVE"}

\* Number.MAX_SAFE_INTEGER is 2^53 - 1; the model takes a value above every
\* timestamp and duration it uses, within the integers of the model checker
MAX_SAFE_INTEGER == 1000000

Front(a) == SubSeq(a, 1, Len(a) - 1)

\* lines 760-763: the entries at or after the new timestamp are popped
RECURSIVE PopNotEarlierStrict(_, _)
PopNotEarlierStrict(a, t) ==
    IF Len(a) > 0 /\ a[Len(a)].timestamp > t THEN PopNotEarlierStrict(Front(a), t) ELSE a

RECURSIVE PopNotEarlier(_, _)
PopNotEarlier(a, t) ==
    IF Len(a) > 0 /\ a[Len(a)].timestamp >= t THEN PopNotEarlier(Front(a), t) ELSE a

\* an UNKNOWN last entry gets the replacement, INACTIVE if that is UNKNOWN too
ResolveUnknownAsInactive(a, replacementForPreviousUnknown, c) ==
    LET n == Len(a)
        b == [a EXCEPT ![n].activeState =
                IF replacementForPreviousUnknown # "UNKNOWN"
                THEN replacementForPreviousUnknown ELSE "INACTIVE"]
    IN  IF n > 0 /\ a[n].activeState = "UNKNOWN"
        THEN IF \/ n = 1 /\ b[1].activeState = "INACTIVE"
                \/ n > 1 /\ b[n].activeState = b[n - 1].activeState
             THEN Front(b)
             ELSE IF /\ n > 2
                     /\ b[n - 1].activeState = "INACTIVE"
                     /\ b[n - 1].timestamp - b[n - 2].timestamp < c
                  THEN SubSeq(b, 1, n - 2)
                  ELSE b
        ELSE a

\* lines 773-794: an UNKNOWN last entry gets the replacement
ResolveUnknown(a, replacementForPreviousUnknown, c) ==
    LET n == Len(a)
        b == [a EXCEPT ![n].activeState =
                IF replacementForPreviousUnknown # "UNKNOWN"
                THEN replacementForPreviousUnknown ELSE "ACTIVE"]
    IN  IF n > 0 /\ a[n].activeState = "UNKNOWN"
        THEN IF \/ n = 1 /\ b[1].activeState = "INACTIVE"
                \/ n > 1 /\ b[n].activeState = b[n - 1].activeState
             THEN Front(b)
             ELSE IF /\ n > 2
                     /\ b[n - 1].activeState = "INACTIVE"
                     /\ b[n - 1].timestamp - b[n - 2].timestamp < c
                  THEN SubSeq(b, 1, n - 2)
                  ELSE b
        ELSE a

\* the inactive phase has to be longer than c
RemoveShortActiveStrict(a, t, c) ==
    LET n == Len(a)
    IN  IF /\ n > 1
           /\ a[n].activeState = "INACTIVE"
           /\ a[n].timestamp - a[n - 1].timestamp < c
           /\ t - a[n].timestamp > c
        THEN SubSeq(a, 1, n - 2)
        ELSE a

\* lines 799-803: a short active phase followed by a long inactive phase is removed
RemoveShortActive(a, t, c) ==
    LET n == Len(a)
    IN  IF /\ n > 1
           /\ a[n].activeState = "INACTIVE"
           /\ a[n].timestamp - a[n - 1].timestamp < c
           /\ t - a[n].timestamp >= c
        THEN SubSeq(a, 1, n - 2)
        ELSE a

\* the new transition is put in front of the sequence
AddOrMergeInFront(a, newStateTransition, c) ==
    LET n == Len(a)
    IN  IF n > 0 /\ newStateTransition.activeState = a[n].activeState
        THEN a
        ELSE IF /\ n > 1
                /\ newStateTransition.activeState = "ACTIVE"
                /\ newStateTransition.timestamp - a[n].timestamp < c
             THEN Front(a)
             ELSE IF n > 0 \/ newStateTransition.activeState # "INACTIVE"
                  THEN <<newStateTransition>> \o a
                  ELSE a

\* lines 812-846: the new transition is dropped, ends a short inactive phase, or is added
AddOrMerge(a, newStateTransition, c) ==
    LET n == Len(a)
    IN  IF n > 0 /\ newStateTransition.activeState = a[n].activeState
        THEN a
        ELSE IF /\ n > 1
                /\ newStateTransition.activeState = "ACTIVE"
                /\ newStateTransition.timestamp - a[n].timestamp < c
             THEN Front(a)
             ELSE IF n > 0 \/ newStateTransition.activeState # "INACTIVE"
                  THEN Append(a, newStateTransition)
                  ELSE a

addStateTransition(a, newStateTransition, replacementForPreviousUnknown, c) ==
    AddOrMerge(
        RemoveShortActive(
            ResolveUnknown(PopNotEarlier(a, newStateTransition.timestamp),
                           replacementForPreviousUnknown, c),
            newStateTransition.timestamp, c),
        newStateTransition, c)

StateTransition(t, s) == [timestamp |-> t, activeState |-> s]

\* lines 894-898
NoUnknownLeft(a) == \A i \in DOMAIN a : a[i].activeState # "UNKNOWN"

\* lines 899-907: the reduce over the timestamps, starting from [MAX_SAFE_INTEGER, -c]
RECURSIVE MinTimestampDifference(_, _, _)
MinTimestampDifference(a, min, previousTimestamp) ==
    IF a = <<>> THEN min
    ELSE MinTimestampDifference(Tail(a), Min(min, Head(a).timestamp - previousTimestamp),
                                Head(a).timestamp)

NoShortPhaseLeft(a, c) == MinTimestampDifference(a, MAX_SAFE_INTEGER, -c) >= c

\* every transition starts an activity
ActivitiesOfEveryTransition(a, assignee) ==
    [k \in 1..Len(a) |->
        [assignee |-> assignee,
         start |-> a[k].timestamp,
         end |-> IF k + 1 <= Len(a) THEN a[k + 1].timestamp ELSE MAX_SAFE_INTEGER,
         isWaiting |-> FALSE]]

\* lines 909-918: every second transition starts an activity
ActivitiesOf(a, assignee) ==
    [k \in 1..((Len(a) + 1) \div 2) |->
        [assignee |-> assignee,
         start |-> a[2 * k - 1].timestamp,
         end |-> IF 2 * k <= Len(a) THEN a[2 * k].timestamp ELSE MAX_SAFE_INTEGER,
         isWaiting |-> FALSE]]

\* lines 878-893: the two closing transitions
AfterLastUpdate(a, issue, c) ==
    addStateTransition(a, StateTransition(issue.lastUpdate, issue.activeState), issue.activeState, c)

AfterFinalTransition(a, issue, c) ==
    addStateTransition(a,
        StateTransition(MAX_SAFE_INTEGER,
                        IF issue.activeState = "UNKNOWN" THEN "ACTIVE" ELSE issue.activeState),
        "ACTIVE", c)

\* finalizeSchedule for one issue, up to the creation of the activities
finalizeSchedule(a, issue, c) ==
    LET closed == AfterFinalTransition(AfterLastUpdate(a, issue, c), issue, c)
        failed == IF ~NoUnknownLeft(closed) THEN "assertion-unknown"
                  ELSE IF ~NoShortPhaseLeft(closed, c) THEN "assertion-gap"
                  ELSE "none"
    IN  [stateTransitions |-> closed,
         assertion |-> failed,
         issueActivities |-> IF failed = "none" THEN ActivitiesOf(closed, issue.assignee) ELSE <<>>]

\* parseActivityItems for the items of one issue: [timestamp, added, removed]
RECURSIVE parseActivityItems(_, _, _)
parseActivityItems(a, activityItems, c) ==
    IF activityItems = <<>> THEN a
    ELSE parseActivityItems(
            addStateTransition(a, StateTransition(Head(activityItems).timestamp, Head(activityItems).added),
                               Head(activityItems).removed, c),
            Tail(activityItems), c)

\* the whole reconstruction of one issue's activities
ReconstructedActivities(created, activityItems, issue, c) ==
    finalizeSchedule(
        parseActivityItems(<<StateTransition(created, "UNKNOWN")>>, activityItems, c),
        issue, c).issueActivities

ParseActivityItem ==
    /\ trPc = "events"
    /\ \E t \in 0..MaxTrTime, added \in ActiveState, removed \in ActiveState :
        /\ stateTransitions' = addStateTransition(stateTransitions, StateTransition(t, added),
                                                  removed, trConfig.minStateChangeDurationMs)
        /\ trChronological' = (trChronological /\ trLastTimestamp <= t /\ t <= trIssue.lastUpdate)
        /\ trLastTimestamp' = t
    /\ UNCHANGED <<trIssue, trConfig, trActivities, trPc>>
    /\ UNCHANGED varsNotTrans

FinalizeSchedule ==
    /\ trPc = "events"
    /\ LET r == finalizeSchedule(stateTransitions, trIssue, trConfig.minStateChangeDurationMs)
       IN  /\ stateTransitions' = r.stateTransitions
           /\ trActivities' = r.issueActivities
           /\ trPc' = IF r.assertion = "none" THEN "finalized" ELSE r.assertion
    /\ UNCHANGED <<trIssue, trConfig, trChronological, trLastTimestamp>>
    /\ UNCHANGED varsNotTrans

\* retrieveIssues: the issue as created from the REST issue
InitTrans ==
    /\ \E created \in 0..MaxTrCreated, updated \in 0..MaxTrTime, s \in ActiveState :
        /\ created <= updated
        /\ trIssue = [created |-> created, lastUpdate |-> updated, activeState |-> s, assignee |-> ""]
        /\ stateTransitions = <<StateTransition(created, "UNKNOWN")>>
        /\ trLastTimestamp = created
    /\ \E c \in 0..MaxTrDuration : trConfig = [minStateChangeDurationMs |-> c]
    /\ trActivities = <<>>
    /\ trPc = "events"
    /\ trChronological = TRUE
    /\ IdleNotTrans

NextTrans == ParseActivityItem \/ FinalizeSchedule

SpecTrans == InitTrans /\ [][NextTrans]_vars

StrictlyIncreasing(a) == \A i \in 1..(Len(a) - 1) : a[i].timestamp < a[i + 1].timestamp
Alternating(a) == \A i \in 1..(Len(a) - 1) : a[i].activeState # a[i + 1].activeState

\* C4: from [(created, UNKNOWN)] on, after every call of addStateTransition,
\* whatever the events, classifications and replacements (the calls of
\* finalizeSchedule included), the transition sequence has strictly increasing
\* timestamps and no two adjacent entries of the same classification.
C4_IncreasingAndAlternating ==
    /\ StrictlyIncreasing(stateTransitions) /\ Alternating(stateTransitions)
    /\ trPc = "events" =>
        LET a == AfterLastUpdate(stateTransitions, trIssue, trConfig.minStateChangeDurationMs)
        IN  StrictlyIncreasing(a) /\ Alternating(a)

\* a sequence of three transitions built from events that were not chronological
C4_Witness ==
    /\ trPc = "events"
    /\ ~trChronological
    /\ Len(stateTransitions) >= 3

\* C5: for a chronological event stream with non-negative timestamps, after
\* finalizeSchedule has added its two closing transitions the transition
\* sequence has no UNKNOWN entry and consecutive entries are at least
\* minStateChangeDurationMs apart: both assertions hold.
C5_AssertionsHold ==
    (trPc \notin {"idle", "events"} /\ trChronological) =>
        /\ trPc = "finalized"
        /\ NoUnknownLeft(stateTransitions)
        /\ NoShortPhaseLeft(stateTransitions, trConfig.minStateChangeDurationMs)


\* no inactive phase shorter than c is followed by an active phase
NoShortInactiveBetweenActive(a, c) ==
    \A i \in 1..(Len(a) - 1) :
        (a[i].activeState = "INACTIVE" /\ a[i + 1].activeState = "ACTIVE") =>
            a[i + 1].timestamp - a[i].timestamp >= c

\* an issue turning active after less than c of inactivity continues its active
\* phase, however short that phase is
ShortInactiveIsMerged(a, c) ==
    \A t \in 0..MaxTrTime, r \in ActiveState :
        (/\ Len(a) >= 2
         /\ a[Len(a)].activeState = "INACTIVE"
         /\ a[Len(a)].timestamp < t
         /\ t - a[Len(a)].timestamp < c) =>
            addStateTransition(a, StateTransition(t, "ACTIVE"), r, c) = Front(a)

\* a short active phase followed by an inactive phase disappears only if that
\* inactive phase is not short
ShortActiveRemovedOnlyAfterLongInactive(a, c) ==
    \A t \in 0..MaxTrTime, s \in ActiveState, r \in ActiveState :
        (/\ Len(a) >= 2
         /\ a[Len(a)].activeState = "INACTIVE"
         /\ a[Len(a)].timestamp - a[Len(a) - 1].timestamp < c
         /\ a[Len(a)].timestamp < t
         /\ a[Len(a) - 1] \notin Range(addStateTransition(a, StateTransition(t, s), r, c))) =>
            t - a[Len(a)].timestamp >= c

\* the example of the documentation of minStateChangeDurationMs: worked on from
\* 100 to 400 and from 700 to 1000
DocumentedExample(c) ==
    ReconstructedActivities(100,
        <<[timestamp |-> 400, added |-> "INACTIVE", removed |-> "ACTIVE"],
          [timestamp |-> 700, added |-> "ACTIVE", removed |-> "INACTIVE"],
          [timestamp |-> 1000, added |-> "INACTIVE", removed |-> "ACTIVE"]>>,
        [lastUpdate |-> 1000, activeState |-> "INACTIVE", assignee |-> ""], c)

\* C6: an inactive phase shorter than minStateChangeDurationMs between two
\* active phases is removed and the active phases are reported as one, however
\* short they are; a short active phase is removed only if the inactive phase
\* next to it is not short; active 100-400 and 700-1000 gives one activity
\* 100-1000 for threshold 301 and none for threshold 901.
C6_ShortInactiveRemoved ==
    /\ (trPc \notin {"idle", "events"} /\ trChronological) =>
        /\ trPc = "finalized"
        /\ NoShortInactiveBetweenActive(stateTransitions, trConfig.minStateChangeDurationMs)
    /\ trPc = "events" =>
        /\ ShortInactiveIsMerged(stateTransitions, trConfig.minStateChangeDurationMs)
        /\ ShortActiveRemovedOnlyAfterLongInactive(stateTransitions, trConfig.minStateChangeDurationMs)
    /\ DocumentedExample(301) = <<[assignee |-> "", start |-> 100, end |-> 1000, isWaiting |-> FALSE]>>
    /\ DocumentedExample(901) = <<>>


-----------------------------------------------------------------------------
(* groupByIntervalAndWaitStatus *)

\* Number.MIN_SAFE_INTEGER is -(2^53 - 1); the model takes a value below every timestamp
MIN_SAFE_INTEGER == -1000000

\* lines 191-197: an ADDED and a REMOVED event per activity of the wait status
RECURSIVE IssueEvents(_, _)
IssueEvents(activities, isWaiting) ==
    IF activities = <<>> THEN <<>>
    ELSE (IF Head(activities).isWaiting = isWaiting
          THEN <<[type |-> "ADDED", assignee |-> Head(activities).assignee,
                  timestamp |-> Head(activities).start, isWaiting |-> isWaiting],
                 [type |-> "REMOVED", assignee |-> Head(activities).assignee,
                  timestamp |-> Head(activities).end, isWaiting |-> isWaiting]>>
          ELSE <<>>)
         \o IssueEvents(Tail(activities), isWaiting)

\* line 198: events.sort by timestamp (stable)
RECURSIVE SortEvents(_)
SortEvents(events) ==
    IF events = <<>> THEN <<>>
    ELSE LET sorted == SortEvents(Front(events))
             e == events[Len(events)]
             pos == Cardinality({k \in DOMAIN sorted : sorted[k].timestamp <= e.timestamp})
         IN  SubSeq(sorted, 1, pos) \o <<e>> \o SubSeq(sorted, pos + 1, Len(sorted))

\* the order of Array.prototype.sort() on the assignee names of the model
DefaultSortRank(assignee) == CASE assignee = "" -> 0 [] assignee = "a" -> 1 [] OTHER -> 2

RECURSIVE SortedAssignees(_)
SortedAssignees(set) ==
    IF set = {} THEN <<>>
    ELSE LET first == CHOOSE x \in set : \A y \in set : DefaultSortRank(x) <= DefaultSortRank(y)
         IN  <<first>> \o SortedAssignees(set \ {first})

\* every assignee that has an entry in the map
CurrentAssigneesSeen(counts) == SortedAssignees(DOMAIN counts)

\* lines 487-492 and 499: the assignees with a positive count, sorted
CurrentAssignees(counts) == SortedAssignees({x \in DOMAIN counts : counts[x] > 0})

AssigneesAlwaysChanged(lastActivity, counts) == TRUE

\* lines 480-486 and 493
AssigneesChanged(lastActivity, counts) ==
    \/ \E k \in DOMAIN lastActivity.assignees :
        (IF lastActivity.assignees[k] \in DOMAIN counts
         THEN counts[lastActivity.assignees[k]] ELSE 0) <= 0
    \/ Len(lastActivity.assignees) # Len(CurrentAssignees(counts))

EndLastActivityOpen(lastActivity, lastTimestamp) == lastActivity

\* line 496
EndLastActivity(lastActivity, lastTimestamp) == [lastActivity EXCEPT !.end = lastTimestamp]

\* timePassed: the current activity and the result array
timePassed(lastActivity, lastTimestamp, currentAssignees, result, isWaiting) ==
    IF AssigneesChanged(lastActivity, currentAssignees)
    THEN [lastActivity |-> [assignees |-> CurrentAssignees(currentAssignees),
                            start |-> lastTimestamp,
                            end |-> MAX_SAFE_INTEGER,
                            isWaiting |-> isWaiting],
          result |-> IF Len(lastActivity.assignees) > 0
                     THEN Append(result, EndLastActivity(lastActivity, lastTimestamp))
                     ELSE result]
    ELSE [lastActivity |-> lastActivity, result |-> result]

\* lines 207-221: the loop over the sorted events; st is the loop's state
RECURSIVE Sweep(_, _, _)
Sweep(events, st, isWaiting) ==
    IF events = <<>> \/ st.failed THEN st
    ELSE LET event == Head(events)
             passed == IF event.timestamp > st.lastTimestamp
                       THEN timePassed(st.lastActivity, st.lastTimestamp, st.counts, st.result, isWaiting)
                       ELSE [lastActivity |-> st.lastActivity, result |-> st.result]
             old == IF event.assignee \in DOMAIN st.counts THEN st.counts[event.assignee] ELSE 0
             assigneeActiveCount == IF event.type = "REMOVED" THEN old - 1 ELSE old + 1
         IN  IF assigneeActiveCount < 0
             THEN [st EXCEPT !.failed = TRUE]
             ELSE Sweep(Tail(events),
                        [lastActivity |-> passed.lastActivity,
                         lastTimestamp |-> event.timestamp,
                         counts |-> [x \in DOMAIN st.counts \cup {event.assignee} |->
                                        IF x = event.assignee THEN assigneeActiveCount ELSE st.counts[x]],
                         result |-> passed.result,
                         failed |-> FALSE],
                        isWaiting)

\* lines 189-222: one iteration of the loop over the wait statuses
GroupWaitStatus(activities, result, isWaiting) ==
    LET st == Sweep(SortEvents(IssueEvents(activities, isWaiting)),
                    [lastActivity |-> [assignees |-> <<>>, start |-> MIN_SAFE_INTEGER,
                                       end |-> MAX_SAFE_INTEGER, isWaiting |-> FALSE],
                     lastTimestamp |-> MIN_SAFE_INTEGER,
                     counts |-> <<>>,
                     result |-> result,
                     failed |-> FALSE],
                    isWaiting)
    IN  IF st.failed THEN [failed |-> TRUE, result |-> st.result]
        ELSE [failed |-> FALSE,
              result |-> timePassed(st.lastActivity, st.lastTimestamp, st.counts, st.result, isWaiting).result]

\* lines 224-226: result.sort by start, then by isWaiting (stable)
GroupBefore(x, y) ==
    IF x.start = y.start THEN (~x.isWaiting /\ y.isWaiting) ELSE x.start < y.start

RECURSIVE SortGroups(_)
SortGroups(result) ==
    IF result = <<>> THEN <<>>
    ELSE LET sorted == SortGroups(Front(result))
             r == result[Len(result)]
             pos == Cardinality({k \in DOMAIN sorted : ~GroupBefore(r, sorted[k])})
         IN  SubSeq(sorted, 1, pos) \o <<r>> \o SubSeq(sorted, pos + 1, Len(sorted))

groupByIntervalAndWaitStatus(activities) ==
    LET notWaiting == GroupWaitStatus(activities, <<>>, FALSE)
        waiting == GroupWaitStatus(activities, notWaiting.result, TRUE)
    IN  IF notWaiting.failed \/ waiting.failed
        THEN [assertion |-> "count cannot become negative", result |-> <<>>]
        ELSE [assertion |-> "none", result |-> SortGroups(waiting.result)]

GrAssignees == {"a", "b"}

\* IssueActivity values, any start and end
GrActivities == [assignee : GrAssignees, start : 0..MaxGrTime, end : 0..MaxGrTime, isWaiting : BOOLEAN]

GroupCall ==
    /\ grPc = "start"
    /\ LET r == groupByIntervalAndWaitStatus(grActivities)
       IN  /\ grResult' = r.result
           /\ grPc' = IF r.assertion = "none" THEN "returned" ELSE "assertion"
    /\ UNCHANGED grActivities
    /\ UNCHANGED varsNotGroup

InitGroup ==
    /\ grActivities \in UNION {[1..n -> GrActivities] : n \in 0..MaxGrActs}
    /\ grResult = <<>>
    /\ grPc = "start"
    /\ IdleNotGroup

NextGroup == GroupCall

SpecGroup == InitGroup /\ [][NextGroup]_vars


GrValidInput == \A k \in DOMAIN grActivities : grActivities[k].start <= grActivities[k].end

Covers(x, p) == x.start <= p /\ p < x.end

\* the points in time of the model and one before and after them
GrPoints == (0 - 1)..(MaxGrTime + 1)

\* the assignees with an input activity of wait status w at p
AssigneesAt(w, p) ==
    {grActivities[k].assignee : k \in {j \in DOMAIN grActivities :
        grActivities[j].isWaiting = w /\ Covers(grActivities[j], p)}}

\* the returned intervals of wait status w at p
IntervalsAt(w, p) == {k \in DOMAIN grResult : grResult[k].isWaiting = w /\ Covers(grResult[k], p)}

GroupedExample ==
    groupByIntervalAndWaitStatus(
        <<[assignee |-> "a", start |-> 0, end |-> 2, isWaiting |-> FALSE],
          [assignee |-> "b", start |-> 1, end |-> 3, isWaiting |-> FALSE]>>).result

\* C7: for activities with start <= end, for each wait status w and point in
\* time p, the returned interval of status w containing p has exactly the
\* assignees with an input activity of status w and start <= p < end, and there
\* is no such interval if there is no such assignee; [{a,0,2},{b,1,3}] gives
\* [{[a],0,1},{[a,b],1,2},{[b],2,3}].
C7_AssigneesPointwise ==
    /\ (grPc \in {"returned", "assertion"} /\ GrValidInput) =>
        /\ grPc = "returned"
        /\ \A w \in BOOLEAN : \A p \in GrPoints :
            /\ AssigneesAt(w, p) # {} => IntervalsAt(w, p) # {}
            /\ \A k \in IntervalsAt(w, p) : Range(grResult[k].assignees) = AssigneesAt(w, p)
    /\ GroupedExample =
        <<[assignees |-> <<"a">>, start |-> 0, end |-> 1, isWaiting |-> FALSE],
          [assignees |-> <<"a", "b">>, start |-> 1, end |-> 2, isWaiting |-> FALSE],
          [assignees |-> <<"b">>, start |-> 2, end |-> 3, isWaiting |-> FALSE]>>

\* a call whose result has an interval of two assignees and an interval of one
C7_Witness ==
    /\ grPc = "returned"
    /\ GrValidInput
    /\ \E k \in DOMAIN grResult : Len(grResult[k].assignees) = 2
    /\ \E k \in DOMAIN grResult : Len(grResult[k].assignees) = 1

\* C8 as stated: whatever the input, no two intervals returned by
\* groupByIntervalAndWaitStatus overlap in time.
C8_NoOverlap ==
    grPc = "returned" =>
        \A i, j \in DOMAIN grResult : i # j => ~Overlap(grResult[i], grResult[j])

\* C8, amended: whatever the input, no two returned intervals with the same
\* isWaiting flag overlap; a waiting and a non-waiting interval overlap only
\* where a waiting input activity overlaps a non-waiting one, so for
\* input whose waiting activities overlap no other activity no two returned
\* intervals overlap.
C8_NoOverlapPerWaitStatus ==
    grPc = "returned" =>
        \A i, j \in DOMAIN grResult :
            (i # j /\ Overlap(grResult[i], grResult[j])) =>
                /\ grResult[i].isWaiting # grResult[j].isWaiting
                /\ GrValidInput =>
                    \E m, n \in DOMAIN grActivities :
                        /\ grActivities[m].isWaiting # grActivities[n].isWaiting
                        /\ Overlap(grActivities[m], grActivities[n])

\* a result in which a waiting and a non-waiting interval overlap
C8_Witness ==
    /\ grPc = "returned"
    /\ \E i, j \in DOMAIN grResult :
        /\ grResult[i].isWaiting # grResult[j].isWaiting
        /\ Overlap(grResult[i], grResult[j])

\* C9: in the result every point in time is covered by at most one interval
\* per wait status, every interval has at least one assignee, and no two
\* intervals of the same wait status of which one ends where the other starts
\* have the same assignees.
C9_MaximalIntervals ==
    grPc = "returned" =>
        /\ \A w \in BOOLEAN : \A p \in GrPoints : Cardinality(IntervalsAt(w, p)) <= 1
        /\ \A k \in DOMAIN grResult : Len(grResult[k].assignees) > 0
        /\ \A i, j \in DOMAIN grResult :
            (grResult[i].isWaiting = grResult[j].isWaiting /\ grResult[i].end = grResult[j].start) =>
                Range(grResult[i].assignees) # Range(grResult[j].assignees)

\* activities of one assignee that overlap or touch were merged into one interval
C9_Witness ==
    /\ grPc = "returned"
    /\ Len(grResult) = 1
    /\ \E m, n \in DOMAIN grActivities :
        /\ m # n
        /\ grActivities[m].start < grActivities[m].end
        /\ grActivities[n].start < grActivities[n].end
        /\ grActivities[m].end < grActivities[n].end
        /\ grActivities[n].start <= grActivities[m].end
        /\ grResult[1].start = grActivities[m].start
        /\ grResult[1].end = grActivities[n].end


-----------------------------------------------------------------------------
(* Further claims about the reconstruction of activities *)

\* what an UNKNOWN entry becomes when the next transition is added
ReplacementOfUnknown(replacementForPreviousUnknown) ==
    IF replacementForPreviousUnknown \in {"ACTIVE", "INACTIVE"}
    THEN replacementForPreviousUnknown ELSE "ACTIVE"

\* the sequence ends with UNKNOWN; whatever later transition is added, the
\* entry, where it stays, has the replacement and only the new entry can be
\* UNKNOWN
UnknownTailReplaced(a, c) ==
    (a # <<>> /\ a[Len(a)].activeState = "UNKNOWN") =>
        \A t \in (a[Len(a)].timestamp + 1)..(MaxTrTime + 1), s \in ActiveState, r \in ActiveState :
            LET added == addStateTransition(a, StateTransition(t, s), r, c)
            IN  \A i \in DOMAIN added :
                    /\ added[i].timestamp = a[Len(a)].timestamp
                        => added[i].activeState = ReplacementOfUnknown(r)
                    /\ i < Len(added) => added[i].activeState # "UNKNOWN"

\* the issue is in an unknown state and its transitions end with an active
\* phase followed by UNKNOWN
EndsUnknownAfterActive(a, issue) ==
    /\ issue.activeState = "UNKNOWN"
    /\ Len(a) >= 2
    /\ a[Len(a)].activeState = "UNKNOWN"
    /\ a[Len(a) - 1].activeState = "ACTIVE"

\* test 'interprets unknown as active if this is the last state transition'
UnknownLastExample ==
    ReconstructedActivities(0,
        <<[timestamp |-> 10, added |-> "UNKNOWN", removed |-> "ACTIVE"]>>,
        [lastUpdate |-> 10, activeState |-> "UNKNOWN", assignee |-> ""], 0)

EndsWithShortActive(a, c) ==
    /\ Len(a) >= 2
    /\ a[Len(a)].activeState = "INACTIVE"
    /\ a[Len(a) - 1].activeState = "ACTIVE"
    /\ a[Len(a)].timestamp - a[Len(a) - 1].timestamp < c

\* no entry of b lies in the last phase of a
LastPhaseGone(a, b) ==
    \A i \in DOMAIN b :
        b[i].timestamp < a[Len(a) - 1].timestamp \/ b[i].timestamp > a[Len(a)].timestamp

\* whatever is added once the inactive phase has lasted c, the short active
\* phase before it is gone
ShortActiveRemovedAfterLongInactive(a, c) ==
    EndsWithShortActive(a, c) =>
        \A t \in (a[Len(a)].timestamp + c)..(MaxTrTime + MaxTrDuration), s \in ActiveState, r \in ActiveState :
            LastPhaseGone(a, addStateTransition(a, StateTransition(t, s), r, c))

\* an issue turning active after exactly c of inactivity starts a new active
\* phase: the phase before it stays
ThresholdInactiveKept(a, c) ==
    (/\ c > 0
     /\ Len(a) >= 2
     /\ a[Len(a)].activeState = "INACTIVE"
     /\ a[Len(a) - 1].activeState = "ACTIVE"
     /\ a[Len(a)].timestamp - a[Len(a) - 1].timestamp >= c) =>
        \A r \in ActiveState :
            LET new == StateTransition(a[Len(a)].timestamp + c, "ACTIVE")
            IN  addStateTransition(a, new, r, c) = Append(a, new)

\* test 'removes short active phase also if state transition sequence ends with it'
ShortActiveLastExample ==
    ReconstructedActivities(0,
        <<[timestamp |-> 1, added |-> "ACTIVE", removed |-> "INACTIVE"],
          [timestamp |-> 2, added |-> "INACTIVE", removed |-> "ACTIVE"]>>,
        [lastUpdate |-> 2, activeState |-> "INACTIVE", assignee |-> ""], 3)

\* C23: an active phase shorter than minStateChangeDurationMs produces no
\* activity when it is the last phase of the stream and the issue ends
\* inactive, and when the inactive phase after it lasts at least
\* minStateChangeDurationMs; an inactive phase of exactly that length is not
\* short: the active phases around it are not merged.
C23_ShortActiveRemoved ==
    /\ trPc = "events" =>
        LET c == trConfig.minStateChangeDurationMs
            a == stateTransitions
            r == finalizeSchedule(a, trIssue, c)
        IN  /\ ShortActiveRemovedAfterLongInactive(a, c)
            /\ ThresholdInactiveKept(a, c)
            /\ (trChronological /\ trIssue.activeState = "INACTIVE" /\ EndsWithShortActive(a, c)) =>
                /\ LastPhaseGone(a, r.stateTransitions)
                /\ \A k \in DOMAIN r.issueActivities :
                        r.issueActivities[k].end < a[Len(a) - 1].timestamp
    /\ ShortActiveLastExample = <<>>

\* a short active phase is all there is of an inactive issue: no activity
C23_Witness ==
    /\ trPc = "events"
    /\ trChronological
    /\ trIssue.activeState = "INACTIVE"
    /\ EndsWithShortActive(stateTransitions, trConfig.minStateChangeDurationMs)
    /\ stateTransitions[Len(stateTransitions)].timestamp + trConfig.minStateChangeDurationMs <= MaxTrTime
    /\ finalizeSchedule(stateTransitions, trIssue, trConfig.minStateChangeDurationMs)
            = [stateTransitions |-> <<>>, assertion |-> "none", issueActivities |-> <<>>]


-----------------------------------------------------------------------------
(* retrieveOverlayOrder *)

\* the response without the ids that idToIssueMap_ has
overlayIdsUnfiltered(savedIssues, response) == response

\* line 670: the ids of the response that idToIssueMap_ has
overlayIds(savedIssues, response) ==
    SelectSeq(response, LAMBDA id : id \in Range(savedIssues))

\* line 671: idToOverlayIdx.has(id)
idToOverlayIdxHas(ids, id) == id \in Range(ids)

\* lines 673-682: the loop, from the indices issueIdx and overlayIdx on
RECURSIVE OverlayLoop(_, _, _, _)
OverlayLoop(list, ids, issueIdx, overlayIdx) ==
    IF issueIdx < Len(list) /\ overlayIdx < Len(ids)
    THEN IF idToOverlayIdxHas(ids, list[issueIdx + 1])
         THEN OverlayLoop([list EXCEPT ![issueIdx + 1] = ids[overlayIdx + 1]], ids,
                          issueIdx + 1, overlayIdx + 1)
         ELSE OverlayLoop(list, ids, issueIdx + 1, overlayIdx)
    ELSE list

\* lines 661-683; `configured` is overlaySavedQueryId.length > 0
retrieveOverlayOrder(savedIssues, configured, response) ==
    IF ~configured THEN savedIssues
    ELSE OverlayLoop(savedIssues, overlayIds(savedIssues, response), 0, 0)

OverlayIssueIds == 1..MaxOverlayIds

\* lines 606-637: an issue as retrieveIssues stores it; the readable id of an
\* issue is modelled by its internal id, 0 is the null of parentIssueId
InternalYouTrackIssue(id, parent, dependencies, subtasks) ==
    [id |-> id, internalId |-> id, parentIssueId |-> parent,
     dependencyIssueIds |-> dependencies, subtaskIssueIds |-> subtasks]

IsDuplicateFree(list) == \A i, j \in DOMAIN list : list[i] = list[j] => i = j

ListsUpTo(S, n) == UNION {[1..k -> S] : k \in 0..n}

RetrieveOverlayOrderCall ==
    /\ ovPc = "start"
    /\ issues_' = retrieveOverlayOrder(issues_, ovConfigured, ovResponse)
    /\ ovPc' = "returned"
    /\ UNCHANGED <<idToIssueMap_, projectPlan_, ovSaved, ovResponse, ovConfigured>>
    /\ UNCHANGED varsNotOverlay

\* the issues of a saved search are distinct; the overlay saved search is any
\* list of issues
InitOverlay ==
    /\ \E saved \in ListsUpTo(OverlayIssueIds, MaxOverlayLen) :
        /\ IsDuplicateFree(saved)
        /\ issues_ = saved
        /\ ovSaved = saved
    /\ idToIssueMap_ = [id \in Range(issues_) |-> InternalYouTrackIssue(id, 0, <<>>, <<>>)]
    /\ projectPlan_ = [issues |-> <<>>, warnings |-> <<>>]
    /\ ovConfigured \in BOOLEAN
    /\ IF ovConfigured THEN ovResponse \in ListsUpTo(OverlayIssueIds, MaxOverlayLen)
       ELSE ovResponse = <<>>
    /\ ovPc = "start"
    /\ IdleNotOverlay

NextOverlay == RetrieveOverlayOrderCall

SpecOverlay == InitOverlay /\ [][NextOverlay]_vars

\* the positions of `list` that hold an issue of the overlay
OverlayPositions(list, response) == {i \in DOMAIN list : list[i] \in Range(response)}

\* the entries of `list` at the positions P, in order
Restricted(list, P) == SelectSeq([i \in DOMAIN list |-> IF i \in P THEN <<list[i]>> ELSE <<>>],
                                 LAMBDA e : e # <<>>)

\* the example of the documentation of overlaySavedQueryId: A, B, C, D with
\* overlay F, D, E, B
OverlayExample == retrieveOverlayOrder(<<1, 2, 3, 4>>, TRUE, <<6, 4, 5, 2>>)

\* C24: after retrieveOverlayOrder with an overlay list without duplicates the
\* issue order is a permutation of the issues of the saved search; every issue
\* that is not in the overlay keeps its position; the issues in both lists have
\* the other positions, in overlay order; overlay issues that are not in the
\* saved search are ignored (A, B, C, D with overlay F, D, E, B gives A, D, C, B).
C24_OverlayOrder ==
    /\ (ovPc = "returned" /\ ovConfigured /\ IsDuplicateFree(ovResponse)) =>
        LET P == OverlayPositions(ovSaved, ovResponse)
        IN  /\ Len(issues_) = Len(ovSaved)
            /\ Range(issues_) = Range(ovSaved)
            /\ IsDuplicateFree(issues_)
            /\ \A i \in DOMAIN ovSaved : i \notin P => issues_[i] = ovSaved[i]
            /\ Restricted(issues_, P) =
                    [k \in 1..Cardinality(P) |->
                        <<SelectSeq(ovResponse, LAMBDA id : id \in Range(ovSaved))[k]>>]
    /\ OverlayExample = <<1, 4, 3, 2>>

\* two issues swapped by an overlay that names a third issue between them,
\* which is not in the saved search; the issue between them stays in place
C24_Witness ==
    /\ ovPc = "returned"
    /\ ovConfigured
    /\ IsDuplicateFree(ovResponse)
    /\ Len(ovSaved) = 3
    /\ Len(ovResponse) = 3
    /\ ovResponse[2] \notin Range(ovSaved)
    /\ issues_ = <<ovSaved[3], ovSaved[2], ovSaved[1]>>


-----------------------------------------------------------------------------
(* The issues and warnings of the project plan (finalizeSchedule) *)

\* lines 920-931
PlanParent(map, issue) ==
    IF issue.parentIssueId # 0 /\ issue.parentIssueId \in DOMAIN map
    THEN issue.parentIssueId ELSE 0

ParentWarning(map, issue) ==
    IF issue.parentIssueId # 0 /\ issue.parentIssueId \notin DOMAIN map
    THEN <<[issueId |-> issue.id, about |-> "subtask of", ids |-> <<issue.parentIssueId>>]>>
    ELSE <<>>

\* lines 933-938
PlanDependencies(map, issue) ==
    SelectSeq(issue.dependencyIssueIds, LAMBDA id : id \in DOMAIN map)

unknownDependencies(map, issue) ==
    SelectSeq(issue.dependencyIssueIds, LAMBDA id : id \notin DOMAIN map)

\* lines 939-945
DependenciesWarning(map, issue) ==
    IF Len(unknownDependencies(map, issue)) > 0
    THEN <<[issueId |-> issue.id, about |-> "depends on", ids |-> unknownDependencies(map, issue)]>>
    ELSE <<>>

\* lines 950-958
unknownSubtasks(map, issue) ==
    SelectSeq(issue.subtaskIssueIds, LAMBDA id : id \notin DOMAIN map)

\* lines 959-965
SubtasksWarning(map, issue) ==
    IF Len(unknownSubtasks(map, issue)) > 0
    THEN <<[issueId |-> issue.id, about |-> "parent for", ids |-> unknownSubtasks(map, issue)]>>
    ELSE <<>>

\* lines 967-983: the issue of the plan, with the fields that refer to issues
PlanIssue(map, issue) ==
    [id |-> issue.id, parent |-> PlanParent(map, issue),
     dependencies |-> PlanDependencies(map, issue)]

\* the loop of finalizeSchedule (line 877) over this.issues_
finalizeProjectPlan(map, list) ==
    [issues |-> [i \in DOMAIN list |-> PlanIssue(map, map[list[i]])],
     warnings |-> Flatten([i \in DOMAIN list |->
                    ParentWarning(map, map[list[i]]) \o DependenciesWarning(map, map[list[i]])
                        \o SubtasksWarning(map, map[list[i]])])]

FinalizeProjectPlan ==
    /\ ovPc = "returned"
    /\ projectPlan_' = finalizeProjectPlan(idToIssueMap_, issues_)
    /\ ovPc' = "finalized"
    /\ UNCHANGED <<issues_, idToIssueMap_, ovSaved, ovResponse, ovConfigured>>
    /\ UNCHANGED varsNotOverlay

PlanIssueIds == 1..MaxPlanIds

\* one issue with any references and no overlay, or several issues with a parent
\* and at most MaxPlanRefs - 1 dependencies each and any overlay of their ids
InitPlan ==
    /\ \/ \E id \in PlanIssueIds, parent \in {0} \cup PlanIssueIds :
            \E dependencies \in ListsUpTo(PlanIssueIds, MaxPlanRefs) :
                \E subtasks \in ListsUpTo(PlanIssueIds, MaxPlanRefs - 1) :
                    /\ issues_ = <<id>>
                    /\ idToIssueMap_ = [i \in {id} |-> InternalYouTrackIssue(id, parent, dependencies, subtasks)]
                    /\ ovConfigured = FALSE
                    /\ ovResponse = <<>>
       \/ \E saved \in ListsUpTo(PlanIssueIds, MaxPlanIssues) :
            /\ Len(saved) >= 2
            /\ IsDuplicateFree(saved)
            /\ issues_ = saved
            /\ \E parents \in [Range(saved) -> {0} \cup PlanIssueIds] :
                \E dependencies \in [Range(saved) -> ListsUpTo(PlanIssueIds, MaxPlanRefs - 1)] :
                    idToIssueMap_ = [i \in Range(saved) |->
                                        InternalYouTrackIssue(i, parents[i], dependencies[i], <<>>)]
            /\ ovConfigured \in BOOLEAN
            /\ IF ovConfigured THEN ovResponse \in ListsUpTo(Range(saved), MaxOverlayLen)
               ELSE ovResponse = <<>>
    /\ ovSaved = issues_
    /\ projectPlan_ = [issues |-> <<>>, warnings |-> <<>>]
    /\ ovPc = "start"
    /\ IdleNotOverlay

NextPlan == RetrieveOverlayOrderCall \/ FinalizeProjectPlan

SpecPlan == InitPlan /\ [][NextPlan]_vars

PlanIds == {projectPlan_.issues[i].id : i \in DOMAIN projectPlan_.issues}

\* every parent and every dependency of the plan is an issue of the plan
PlanIsClosed ==
    \A i \in DOMAIN projectPlan_.issues :
        /\ projectPlan_.issues[i].parent \in {0} \cup PlanIds
        /\ Range(projectPlan_.issues[i].dependencies) \subseteq PlanIds

\* the kinds of reference of the issue that lead out of the saved search
KindsOutside(issue) ==
    (IF issue.parentIssueId \notin {0} \cup Range(ovSaved) THEN <<"subtask of">> ELSE <<>>)
    \o (IF Range(issue.dependencyIssueIds) \subseteq Range(ovSaved) THEN <<>> ELSE <<"depends on">>)
    \o (IF Range(issue.subtaskIssueIds) \subseteq Range(ovSaved) THEN <<>> ELSE <<"parent for">>)

\* for each issue of the plan, in order: one warning per kind of reference that
\* leads out of the saved search, with the id of the issue
OneWarningEach ==
    LET expected == Flatten([i \in DOMAIN issues_ |->
                        [k \in DOMAIN KindsOutside(idToIssueMap_[issues_[i]]) |->
                            [issueId |-> issues_[i],
                             about |-> KindsOutside(idToIssueMap_[issues_[i]])[k]]]])
    IN  /\ Len(projectPlan_.issues) = Len(issues_)
        /\ [w \in DOMAIN projectPlan_.warnings |->
                [issueId |-> projectPlan_.warnings[w].issueId, about |-> projectPlan_.warnings[w].about]]
            = expected

\* C25: in every project plan that reconstructProjectPlan returns, the parent
\* of each issue is empty or the id of an issue of the plan and each dependency
\* is the id of an issue of the plan; a parent, dependencies or sub-issues that
\* are not in the saved search add one warning each, with the id of the
\* referring issue, and the reconstruction does not fail.
C25_ClosedPlanWithWarnings ==
    ovPc = "finalized" => (PlanIsClosed /\ OneWarningEach)

\* what holds of every plan: the warnings, and closedness when the overlay
\* names no issue twice
PlanClosedUnlessOverlayRepeats ==
    ovPc = "finalized" =>
        /\ OneWarningEach
        /\ IsDuplicateFree(ovResponse) => PlanIsClosed


-----------------------------------------------------------------------------
(* httpGet and onRequestFinished *)

\* a promise and its settling; a settled promise ignores further calls
PendingPromise == [state |-> "pending", value |-> <<>>]

Settle(promise, state, value) ==
    IF promise.state = "pending" THEN [state |-> state, value |-> value] ELSE promise

\* line 178-181: value && typeof value.error === 'string' && typeof
\* value.error_description === 'string'; "absent" is a property that is not a string
isYouTrackError(value) ==
    /\ value.kind = "object"
    /\ value.error # "absent"
    /\ value.error_description # "absent"

\* the status is looked at before the shape of the response
onRequestFinishedByStatus(url, xhr) ==
    IF xhr.response.kind = "null"
    THEN [call |-> "reject", value |-> [failure |-> "could not be reached", url |-> url]]
    ELSE IF xhr.status = 200
         THEN [call |-> "resolve", value |-> xhr.response]
         ELSE IF isYouTrackError(xhr.response)
              THEN [call |-> "reject",
                    value |-> [failure |-> "returned the following error", url |-> url,
                               description |-> xhr.response.error_description]]
              ELSE [call |-> "reject",
                    value |-> [failure |-> "returned an unexpected error", url |-> url, status |-> xhr.status]]

\* lines 293-312: which of resolve and reject is called, and with what
onRequestFinished(url, xhr) ==
    IF xhr.response.kind = "null"
    THEN [call |-> "reject", value |-> [failure |-> "could not be reached", url |-> url]]
    ELSE IF isYouTrackError(xhr.response)
         THEN [call |-> "reject",
               value |-> [failure |-> "returned the following error", url |-> url,
                          description |-> xhr.response.error_description]]
         ELSE IF xhr.status = 200
              THEN [call |-> "resolve", value |-> xhr.response]
              ELSE [call |-> "reject",
                    value |-> [failure |-> "returned an unexpected error", url |-> url, status |-> xhr.status]]

HttpBaseUrls == {"http://unknown/", "http://youtrack/"}

Authorizations == {"undefined", "Bearer secret", " "}

HttpStatuses == {0, 200, 404, 418}

XhrResponses ==
    {[kind |-> "null"], [kind |-> "string", value |-> "unknown"], [kind |-> "string", value |-> ""],
     [kind |-> "array", value |-> <<>>]}
    \cup {[kind |-> "object", error |-> e, error_description |-> d] :
            e \in {"absent", "Not Found"}, d \in {"absent", "Entity with id unknown-id not found"}}

\* lines 199-205 and 207-219: without authorization a rejected promise and no
\* request; else the request is sent and the promise is pending
HttpGetCall ==
    /\ hgPc = "start"
    /\ IF hgAuthorization = "undefined"
       THEN /\ hgPromise' = Settle(PendingPromise, "rejected",
                                   [failure |-> "No valid unexpired OAuth token available", url |-> hgBaseUrl])
            /\ hgSettled' = hgSettled + 1
            /\ hgPc' = "rejected"
            /\ UNCHANGED hgXhr
       ELSE /\ hgPromise' = PendingPromise
            /\ hgXhr' = [hgXhr EXCEPT !.sent = @ + 1, !.authorization = hgAuthorization]
            /\ hgPc' = "sent"
            /\ UNCHANGED hgSettled
    /\ UNCHANGED <<hgBaseUrl, hgAuthorization>>
    /\ UNCHANGED varsNotHttpGet

\* the request ends with some response and status: xhr.onloadend (line 215)
OnLoadEnd ==
    /\ hgPc = "sent"
    /\ \E response \in XhrResponses, status \in HttpStatuses :
        LET xhr == [hgXhr EXCEPT !.response = response, !.status = status]
            finished == onRequestFinished(hgBaseUrl, xhr)
        IN  /\ hgXhr' = xhr
            /\ hgPromise' = Settle(hgPromise,
                                   IF finished.call = "resolve" THEN "fulfilled" ELSE "rejected",
                                   finished.value)
    /\ hgSettled' = hgSettled + 1
    /\ hgPc' = "finished"
    /\ UNCHANGED <<hgBaseUrl, hgAuthorization>>
    /\ UNCHANGED varsNotHttpGet

InitHttpGet ==
    /\ hgBaseUrl \in HttpBaseUrls
    /\ hgAuthorization \in Authorizations
    /\ hgXhr = [sent |-> 0, authorization |-> "undefined", response |-> [kind |-> "null"], status |-> 0]
    /\ hgPromise = <<>>
    /\ hgSettled = 0
    /\ hgPc = "start"
    /\ IdleNotHttpGet

NextHttpGet == HttpGetCall \/ OnLoadEnd

SpecHttpGet == InitHttpGet /\ [][NextHttpGet]_vars

\* C26: the promise of httpGet is settled exactly once: rejected at once and
\* without a request if authorizationFor(baseUrl) is undefined; else fulfilled
\* with the response if and only if the response is not null, has not the shape
\* of a YouTrackError and the status is 200, and else rejected with a failure
\* that says that the server was not reachable (null response), gives the
\* error description (YouTrackError) or the unexpected status.
C26_SettledOnce ==
    /\ hgSettled <= 1
    /\ hgPc = "sent" => (hgSettled = 0 /\ hgPromise.state = "pending" /\ hgAuthorization # "undefined")
    /\ hgPc = "rejected" =>
        /\ hgAuthorization = "undefined"
        /\ hgXhr.sent = 0
        /\ hgSettled = 1
        /\ hgPromise.state = "rejected"
        /\ hgPromise.value.failure = "No valid unexpired OAuth token available"
    /\ hgPc = "finished" =>
        LET r == hgXhr.response
            fine == /\ r.kind # "null"
                    /\ ~(r.kind = "object" /\ r.error # "absent" /\ r.error_description # "absent")
                    /\ hgXhr.status = 200
        IN  /\ hgAuthorization # "undefined"
            /\ hgXhr.sent = 1
            /\ hgXhr.authorization = hgAuthorization
            /\ hgSettled = 1
            /\ hgPromise.state = (IF fine THEN "fulfilled" ELSE "rejected")
            /\ fine => hgPromise.value = r
            /\ ~fine =>
                hgPromise.value.failure =
                    IF r.kind = "null" THEN "could not be reached"
                    ELSE IF r.kind = "object" /\ r.error # "absent" /\ r.error_description # "absent"
                         THEN "returned the following error"
                         ELSE "returned an unexpected error"
            /\ (~fine /\ hgPromise.value.failure = "returned the following error") =>
                hgPromise.value.description = r.error_description
            /\ (~fine /\ hgPromise.value.failure = "returned an unexpected error") =>
                hgPromise.value.status = hgXhr.status

\* a YouTrackError that came with status 200: rejected with its description
C26_Witness ==
    /\ hgPc = "finished"
    /\ hgXhr.status = 200
    /\ hgXhr.response.kind = "object"
    /\ hgPromise = [state |-> "rejected",
                    value |-> [failure |-> "returned the following error", url |-> hgBaseUrl,
                               description |-> "Entity with id unknown-id not found"]]


-----------------------------------------------------------------------------
(* httpGetAll and httpGetAllWithOptions *)

\* lines 240-243: array.push(...batch); return array
processBatch(batch, array) == array \o batch

\* the server: the window of the array that $skip and $top select; no $skip is 0
ServedWindow(array, request) ==
    LET skip == IF "skip" \in DOMAIN request THEN request.skip ELSE 0
    IN  SubSeq(array, skip + 1, Min(Len(array), skip + request.top))

\* queryParams.$top = ..., queryParams.$skip = ...
SetParam(queryParams, param, value) == (param :> value) @@ queryParams

\* the object a caller passes: new, or as an earlier call of httpGetAll left it
QueryParams ==
    {[fields |-> "id"]}
    \cup {[fields |-> "id", top |-> t, skip |-> s] : t \in 1..MaxBatchSize, s \in 1..MaxServerLen}

ServerElements == {"a", "b"}

\* lines 266-272: $top is set, the first request is sent
HttpGetAllStart ==
    /\ gaPc = "start"
    /\ gaLocals' = [numElementsRetrieved |-> 0, busy |-> TRUE, state |-> <<>>]
    /\ gaQueryParams' = SetParam(gaQueryParams, "top", gaBatchSize)
    /\ gaRequests' = <<gaQueryParams'>>
    /\ gaPc' = "awaiting"
    /\ UNCHANGED <<gaServer, gaBatchSize, gaBatches, gaCalls, gaResult>>
    /\ UNCHANGED varsNotHttpGetAll

\* lines 273-285: one iteration of the loop, from the arrival of the batch on
BatchArrives ==
    /\ gaPc = "awaiting"
    /\ LET batch == ServedWindow(gaServer, gaRequests[Len(gaRequests)])
           numElementsRetrieved == gaLocals.numElementsRetrieved + Len(batch)
           busy == Len(batch) >= gaBatchSize
           state == processBatch(batch, gaLocals.state)
       IN  /\ gaBatches' = Append(gaBatches, batch)
           /\ gaQueryParams' = IF busy THEN SetParam(gaQueryParams, "skip", numElementsRetrieved)
                               ELSE gaQueryParams
           /\ gaRequests' = IF busy THEN Append(gaRequests, gaQueryParams') ELSE gaRequests
           /\ gaCalls' = Append(gaCalls, [batch |-> batch, previous |-> gaLocals.state, returned |-> state])
           /\ gaLocals' = [numElementsRetrieved |-> numElementsRetrieved, busy |-> busy, state |-> state]
           /\ gaPc' = IF busy THEN "awaiting" ELSE "resolved"
           /\ gaResult' = IF busy THEN gaResult ELSE state
    /\ UNCHANGED <<gaServer, gaBatchSize>>
    /\ UNCHANGED varsNotHttpGetAll

InitHttpGetAll ==
    /\ gaServer \in ListsUpTo(ServerElements, MaxServerLen)
    /\ gaBatchSize \in 1..MaxBatchSize
    /\ gaQueryParams \in QueryParams
    /\ gaRequests = <<>>
    /\ gaBatches = <<>>
    /\ gaCalls = <<>>
    /\ gaLocals = <<>>
    /\ gaResult = <<>>
    /\ gaPc = "start"
    /\ IdleNotHttpGetAll

NextHttpGetAll == HttpGetAllStart \/ BatchArrives

SpecHttpGetAll == InitHttpGetAll /\ [][NextHttpGetAll]_vars

\* the server answers every request
SpecHttpGetAllServed == SpecHttpGetAll /\ WF_vars(NextHttpGetAll)

\* request k has $top = restBatchSize and $skip = the number of elements of the
\* batches before it (none for the first request)
RequestsFollowBatches ==
    \A k \in DOMAIN gaRequests :
        /\ gaRequests[k].top = gaBatchSize
        /\ IF k = 1 /\ "skip" \notin DOMAIN gaRequests[k] THEN TRUE
           ELSE gaRequests[k].skip = SeqSum([j \in 1..(k - 1) |-> Len(gaBatches[j])])

\* one call of processBatch per batch, in order, each with the state that the
\* call before it returned
OneCallPerBatch ==
    /\ Len(gaCalls) = Len(gaBatches)
    /\ \A k \in DOMAIN gaCalls :
        /\ gaCalls[k].batch = gaBatches[k]
        /\ gaCalls[k].previous = IF k = 1 THEN <<>> ELSE gaCalls[k - 1].returned

\* C27: for a server that serves a fixed finite array in windows given by
\* $skip and $top, httpGetAll resolves with exactly that array; request k is
\* sent with $top = restBatchSize and $skip = the number of elements received
\* in the batches 1..k-1; processBatch is called exactly once per batch, in
\* request order, with the state returned by the previous call.
C27_AllBatchesInOrder ==
    /\ <>(gaPc = "resolved")
    /\ [](gaPc \in {"awaiting", "resolved"} => (RequestsFollowBatches /\ OneCallPerBatch))
    /\ [](gaPc = "awaiting" => Len(gaRequests) = Len(gaBatches) + 1)
    /\ [](gaPc = "resolved" =>
            /\ gaResult = gaServer
            /\ Len(gaRequests) = Len(gaBatches)
            /\ Flatten(gaBatches) = gaServer)

\* what holds of every call with a queryParams object that has no $skip
FreshQueryParamsFetchAll ==
    ("skip" \notin DOMAIN gaQueryParams) => C27_AllBatchesInOrder


-----------------------------------------------------------------------------
(* OAuth: goToOauthPage, handlePotentialOauthRedirect, authorizationFor *)

\* line 41-43: new URL(baseUrl).toString(), which ends an empty path with a slash
normalizeUrl(baseUrl) ==
    CASE baseUrl = "http://youtrack" -> "http://youtrack/"
      [] OTHER -> baseUrl

OauthBaseUrls == {"http://youtrack", "http://youtrack/", "http://unknown/"}

\* application states: a string, NaN, undefined
AppStates == {"'appState'", "NaN", "undefined"}

\* JSON.stringify of the property appState (line 91): NaN becomes null, an
\* undefined property is left out
JsonStringifyProperty(value) ==
    CASE value = "NaN" -> "null"
      [] value = "undefined" -> "omitted"
      [] OTHER -> value

\* JSON.parse and the read of the property (lines 143, 159)
JsonParseProperty(text) == IF text = "omitted" THEN "undefined" ELSE text

\* line 150: parseInt(expiresIn, 10); NaN when no number starts the string
parseInt(string) ==
    CASE string = "0" -> [nan |-> FALSE, value |-> 0]
      [] string = "1" -> [nan |-> FALSE, value |-> 1]
      [] string = "1s" -> [nan |-> FALSE, value |-> 1]
      [] OTHER -> [nan |-> TRUE, value |-> 0]

ExpiresInStrings == {"", "0", "1"}

\* a comparison with NaN is false
NotBefore(now, validUntil) == ~validUntil.nan /\ now >= validUntil.value

\* line 76: `${Date.now().toString()}_${Math.floor(Math.random() * 10000)}`
OauthId(now, random) == ToString(now) \o "_" \o ToString(random)

\* the values of Date.now(): the full seconds and the millisecond before the next
ClockValues == {k * 1000 + e : k \in 0..MaxNow, e \in {0, 999}}

\* the parameters of the hash of the current URL; "absent" is a missing one
UrlHashes(oAuthIds) ==
    [state : {"absent", "fake-state"} \cup oAuthIds,
     access_token : {"absent", "access-token"},
     expires_in : {"absent"} \cup ExpiresInStrings,
     token_type : {"absent", "Bearer"}]

NoResult == "undefined"

\* lines 66-93; line 92 leaves the page, which ends the calls of goToOauthPage
GoToOauthPage ==
    /\ oaRequests = <<>>
    /\ \E baseUrl \in OauthBaseUrls, appState \in AppStates, random \in 0..MaxRandom :
        LET oAuthId == OauthId(oaNow, random)
            stored == [baseUrl |-> normalizeUrl(baseUrl), appState |-> JsonStringifyProperty(appState)]
        IN  /\ sessionStorage' = [id \in DOMAIN sessionStorage \cup {oAuthId} |->
                                    IF id = oAuthId THEN stored ELSE sessionStorage[id]]
            /\ oaRequests' = Append(oaRequests, [oAuthId |-> oAuthId, baseUrl |-> baseUrl, appState |-> appState])
            /\ oaCall' = [function |-> "goToOauthPage", argument |-> baseUrl, result |-> NoResult,
                          storageBefore |-> DOMAIN sessionStorage, tokensBefore |-> baseUrlToAccessTokenMap]
    /\ UNCHANGED <<baseUrlToAccessTokenMap, oaNow>>
    /\ UNCHANGED varsNotOauth

\* the token is recorded as soon as the hash has an access_token
handlePotentialOauthRedirectByToken(storage, tokens, now, hash) ==
    IF hash.state # "absent" /\ hash.state \in DOMAIN storage
    THEN LET baseUrlAndAppState == storage[hash.state]
             removed == [id \in DOMAIN storage \ {hash.state} |-> storage[id]]
         IN  IF hash.access_token # "absent"
             THEN LET seconds == parseInt(hash.expires_in)
                      accessToken == [type |-> hash.token_type, secret |-> hash.access_token,
                                      validUntil |-> [nan |-> seconds.nan,
                                                      value |-> now + seconds.value * 1000]]
                  IN  [storage |-> removed,
                       tokens |-> [url \in DOMAIN tokens \cup {baseUrlAndAppState.baseUrl} |->
                                    IF url = baseUrlAndAppState.baseUrl THEN accessToken ELSE tokens[url]],
                       result |-> JsonParseProperty(baseUrlAndAppState.appState)]
             ELSE [storage |-> removed, tokens |-> tokens, result |-> NoResult]
    ELSE [storage |-> storage, tokens |-> tokens, result |-> NoResult]

\* lines 109-165 for the hash: the storage, the tokens and the value returned
handlePotentialOauthRedirect(storage, tokens, now, hash) ==
    IF hash.state # "absent" /\ hash.state \in DOMAIN storage
    THEN LET baseUrlAndAppState == storage[hash.state]
             removed == [id \in DOMAIN storage \ {hash.state} |-> storage[id]]
         IN  IF hash.access_token # "absent" /\ hash.expires_in # "absent" /\ hash.token_type # "absent"
             THEN LET seconds == parseInt(hash.expires_in)
                      accessToken == [type |-> hash.token_type, secret |-> hash.access_token,
                                      validUntil |-> [nan |-> seconds.nan,
                                                      value |-> now + seconds.value * 1000]]
                  IN  [storage |-> removed,
                       tokens |-> [url \in DOMAIN tokens \cup {baseUrlAndAppState.baseUrl} |->
                                    IF url = baseUrlAndAppState.baseUrl THEN accessToken ELSE tokens[url]],
                       result |-> JsonParseProperty(baseUrlAndAppState.appState)]
             ELSE [storage |-> removed, tokens |-> tokens, result |-> NoResult]
    ELSE [storage |-> storage, tokens |-> tokens, result |-> NoResult]

HandlePotentialOauthRedirect ==
    /\ \E hash \in UrlHashes({oaRequests[i].oAuthId : i \in DOMAIN oaRequests}) :
        LET handled == handlePotentialOauthRedirect(sessionStorage, baseUrlToAccessTokenMap, oaNow, hash)
        IN  /\ sessionStorage' = handled.storage
            /\ baseUrlToAccessTokenMap' = handled.tokens
            /\ oaCall' = [function |-> "handlePotentialOauthRedirect", argument |-> hash,
                          result |-> handled.result,
                          storageBefore |-> DOMAIN sessionStorage, tokensBefore |-> baseUrlToAccessTokenMap]
    /\ oaRequests # <<>>
    /\ UNCHANGED <<oaNow, oaRequests>>
    /\ UNCHANGED varsNotOauth

\* lines 178-190: the tokens and the value returned
authorizationFor(tokens, now, baseUrl) ==
    LET normalizedBaseUrl == normalizeUrl(baseUrl)
    IN  IF normalizedBaseUrl \notin DOMAIN tokens
        THEN [tokens |-> tokens, result |-> NoResult]
        ELSE IF NotBefore(now, tokens[normalizedBaseUrl].validUntil)
             THEN [tokens |-> [url \in DOMAIN tokens \ {normalizedBaseUrl} |-> tokens[url]],
                   result |-> NoResult]
             ELSE [tokens |-> tokens,
                   result |-> tokens[normalizedBaseUrl].type \o " " \o tokens[normalizedBaseUrl].secret]

AuthorizationFor ==
    /\ oaRequests # <<>>
    /\ \E baseUrl \in OauthBaseUrls :
        LET authorization == authorizationFor(baseUrlToAccessTokenMap, oaNow, baseUrl)
        IN  /\ baseUrlToAccessTokenMap' = authorization.tokens
            /\ oaCall' = [function |-> "authorizationFor", argument |-> baseUrl,
                          result |-> authorization.result,
                          storageBefore |-> DOMAIN sessionStorage, tokensBefore |-> baseUrlToAccessTokenMap]
    /\ UNCHANGED <<sessionStorage, oaNow, oaRequests>>
    /\ UNCHANGED varsNotOauth

\* time passes
ClockAdvances ==
    /\ \E now \in ClockValues :
        /\ now > oaNow
        /\ oaNow' = now
    /\ oaCall' = [function |-> "none", argument |-> NoResult, result |-> NoResult,
                  storageBefore |-> DOMAIN sessionStorage, tokensBefore |-> baseUrlToAccessTokenMap]
    /\ UNCHANGED <<sessionStorage, baseUrlToAccessTokenMap, oaRequests>>
    /\ UNCHANGED varsNotOauth

InitOauth ==
    /\ sessionStorage = <<>>
    /\ baseUrlToAccessTokenMap = <<>>
    /\ oaNow = 0
    /\ oaRequests = <<>>
    /\ oaCall = [function |-> "none", argument |-> NoResult, result |-> NoResult,
                 storageBefore |-> {}, tokensBefore |-> <<>>]
    /\ IdleNotOauth

NextOauth == GoToOauthPage \/ HandlePotentialOauthRedirect \/ AuthorizationFor \/ ClockAdvances

SpecOauth == InitOauth /\ [][NextOauth]_vars


\* the latest call of goToOauthPage that made the oAuthId
LatestRequest(oAuthId) ==
    LET made == {i \in DOMAIN oaRequests : oaRequests[i].oAuthId = oAuthId}
    IN  oaRequests[CHOOSE i \in made : \A j \in made : j <= i]

\* the hash names an entry that is in the session storage and has the three
\* parameters of the token
RedirectComplete(call) ==
    /\ call.argument.state \in call.storageBefore
    /\ call.argument.access_token # "absent"
    /\ call.argument.expires_in # "absent"
    /\ call.argument.token_type # "absent"

\* the authorization header that the hash describes
AuthorizationOf(hash) == hash.token_type \o " " \o hash.access_token

\* the values that JSON.stringify and JSON.parse give back unchanged
JsonValues == {"'appState'"}

\* C28 as stated: handlePotentialOauthRedirect returns an application state
\* iff the hash has a state parameter with an unconsumed entry of goToOauthPage
\* and has access_token, expires_in and token_type; then it returns exactly the
\* appState given to goToOauthPage and authorizationFor(baseUrl) afterwards
\* returns '<token_type> <access_token>'; else it returns undefined and records
\* no token.
C28_RedirectRestoresState ==
    oaCall.function = "handlePotentialOauthRedirect" =>
        IF RedirectComplete(oaCall)
        THEN LET given == LatestRequest(oaCall.argument.state)
             IN  /\ oaCall.result # NoResult
                 /\ oaCall.result = given.appState
                 /\ authorizationFor(baseUrlToAccessTokenMap, oaNow, given.baseUrl).result
                        = AuthorizationOf(oaCall.argument)
        ELSE /\ oaCall.result = NoResult
             /\ baseUrlToAccessTokenMap = oaCall.tokensBefore

\* C28, amended: the token is recorded iff the redirect is complete; the value
\* returned is the appState as JSON.stringify and JSON.parse restore it, which
\* is the appState given if that is a JSON value; authorizationFor(baseUrl)
\* returns '<token_type> <access_token>' unless the token has expired; the
\* entry of the state parameter is consumed; in every other case undefined is
\* returned and no token is recorded.
C28_RedirectRestoresJsonState ==
    oaCall.function = "handlePotentialOauthRedirect" =>
        /\ oaCall.argument.state \notin DOMAIN sessionStorage
        /\ IF RedirectComplete(oaCall)
           THEN LET given == LatestRequest(oaCall.argument.state)
                    expiry == oaNow + parseInt(oaCall.argument.expires_in).value * 1000
                    expired == ~parseInt(oaCall.argument.expires_in).nan /\ oaNow >= expiry
                IN  /\ given.appState \in JsonValues => oaCall.result = given.appState
                    /\ given.appState = "NaN" => oaCall.result = "null"
                    /\ given.appState = "undefined" => oaCall.result = NoResult
                    /\ given.baseUrl \in {"http://youtrack", "http://youtrack/"} =>
                        /\ DOMAIN baseUrlToAccessTokenMap = DOMAIN oaCall.tokensBefore \cup {"http://youtrack/"}
                        /\ baseUrlToAccessTokenMap["http://youtrack/"].validUntil.value = expiry
                    /\ \A baseUrl \in {given.baseUrl, normalizeUrl(given.baseUrl)} :
                        authorizationFor(baseUrlToAccessTokenMap, oaNow, baseUrl).result
                            = IF expired THEN NoResult ELSE AuthorizationOf(oaCall.argument)
           ELSE /\ oaCall.result = NoResult
                /\ baseUrlToAccessTokenMap = oaCall.tokensBefore

\* the redirect of the test: appState 'appState', token type Bearer, given for
\* the base URL without the final slash
C28_Witness ==
    /\ oaCall.function = "handlePotentialOauthRedirect"
    /\ RedirectComplete(oaCall)
    /\ oaCall.argument.expires_in = "1"
    /\ oaCall.result = "'appState'"
    /\ oaRequests[1].baseUrl = "http://youtrack"
    /\ authorizationFor(baseUrlToAccessTokenMap, oaNow, "http://youtrack/").result = "Bearer access-token"
    /\ sessionStorage = <<>>

\* the token that was recorded for the base URL of the call when it was made
TokenBefore(call) == call.tokensBefore[normalizeUrl(call.argument)]

\* Date.now() < validUntil, which is false for a validUntil of NaN
Before(now, validUntil) == ~validUntil.nan /\ now < validUntil.value

\* C29 as stated: authorizationFor returns a value only if a token is recorded
\* for the normalized base URL and Date.now() < validUntil; a token found
\* expired is removed, and without a token of the base URL every call returns
\* undefined and records none (only a redirect records a token).
C29_NoAuthorizationAfterExpiry ==
    [][oaCall'.function = "authorizationFor" =>
        LET normalizedBaseUrl == normalizeUrl(oaCall'.argument)
        IN  /\ oaCall'.result # NoResult =>
                /\ normalizedBaseUrl \in DOMAIN baseUrlToAccessTokenMap
                /\ Before(oaNow, baseUrlToAccessTokenMap[normalizedBaseUrl].validUntil)
            /\ oaCall'.result = NoResult =>
                normalizedBaseUrl \notin DOMAIN baseUrlToAccessTokenMap'
            /\ DOMAIN baseUrlToAccessTokenMap' \subseteq DOMAIN baseUrlToAccessTokenMap]_vars

\* the same for the tokens whose expires_in began with a number: the
\* authorization is returned strictly before validUntil only
AuthorizationBeforeNumericExpiry ==
    [][oaCall'.function = "authorizationFor" =>
        LET normalizedBaseUrl == normalizeUrl(oaCall'.argument)
        IN  /\ oaCall'.result # NoResult =>
                /\ normalizedBaseUrl \in DOMAIN baseUrlToAccessTokenMap
                /\ \/ baseUrlToAccessTokenMap[normalizedBaseUrl].validUntil.nan
                   \/ Before(oaNow, baseUrlToAccessTokenMap[normalizedBaseUrl].validUntil)
            /\ oaCall'.result = NoResult =>
                normalizedBaseUrl \notin DOMAIN baseUrlToAccessTokenMap'
            /\ DOMAIN baseUrlToAccessTokenMap' \subseteq DOMAIN baseUrlToAccessTokenMap]_vars

\* the token of a redirect with expires_in= (no number) is returned at every
\* later time
NeverExpiringToken ==
    /\ oaCall.function = "authorizationFor"
    /\ oaCall.result # NoResult
    /\ TokenBefore(oaCall).validUntil.nan
    /\ oaNow = MaxNow * 1000 + 999


-----------------------------------------------------------------------------
\* The progress updates of YouTrackIssueActivities (run, progressUpdate,
\* retrieveIssues, retrieveActivities, parseActivityItems).

\* A number of JavaScript that is NaN, a quotient num/den with den > 0, or an
\* infinity (den = 0, num = 1 or -1).
Number(n) == [nan |-> FALSE, num |-> n, den |-> 1]
NaN == [nan |-> TRUE, num |-> 0, den |-> 1]

\* a / b for integers: 0 / 0 is NaN, a / 0 is an infinity
Divide(a, b) ==
    IF b = 0
    THEN IF a = 0 THEN NaN ELSE [nan |-> FALSE, num |-> IF a > 0 THEN 1 ELSE -1, den |-> 0]
    ELSE IF b < 0 THEN [nan |-> FALSE, num |-> -a, den |-> -b]
         ELSE [nan |-> FALSE, num |-> a, den |-> b]

\* Math.min(1, x): NaN if x is NaN
MinWithOne(x) ==
    IF x.nan THEN NaN
    ELSE IF x.num > x.den THEN Number(1) ELSE x

\* c * x for an integer c > 0
Scale(c, x) == IF x.nan \/ x.den = 0 THEN x ELSE [nan |-> FALSE, num |-> c * x.num, den |-> x.den]

\* x + y
Plus(x, y) ==
    IF x.nan \/ y.nan THEN NaN
    ELSE IF x.den = 0 THEN (IF y.den = 0 /\ y.num # x.num THEN NaN ELSE x)
    ELSE IF y.den = 0 THEN y
    ELSE [nan |-> FALSE, num |-> x.num * y.den + y.num * x.den, den |-> x.den * y.den]

\* x <= y, which is false if one of them is NaN
NumberLessEq(x, y) == ~x.nan /\ ~y.nan /\ x.num * y.den <= y.num * x.den

\* lines 493-503: the percentage from the fields of the object
percentageDone(numIssues, numTasksWithDetails, minTimeStamp, maxActivityTimeStamp, maxUpdateTimeStamp) ==
    IF numIssues > 0
    THEN LET issuesPart == Plus(Number(1), Scale(9, MinWithOne(Divide(numTasksWithDetails, numIssues))))
         IN  IF minTimeStamp > 0
             THEN Plus(issuesPart,
                       Scale(90, MinWithOne(Divide(maxActivityTimeStamp - minTimeStamp,
                                                   maxUpdateTimeStamp - minTimeStamp))))
             ELSE issuesPart
    ELSE Number(0)

\* lines 488-507 with the two values of Date.now() (lines 489 and 505): the
\* time of the last update, the invocations of the callback, the clock
progressUpdate(last, calls, first, second, percentage) ==
    IF first - last < prConfig.progressUpdateIntervalMs
    THEN [lastProgressUpdate |-> last, calls |-> calls, now |-> first]
    ELSE [lastProgressUpdate |-> second,
          calls |-> Append(calls, [percentageDone |-> percentage, now |-> second]),
          now |-> second]

\* the values that Date.now() can return for two successive calls
ClockReadings == {r \in (prNow..(prNow + 2 * MaxTick)) \X (prNow..(prNow + 2 * MaxTick)) :
                    /\ r[1] <= prNow + MaxTick
                    /\ r[1] <= r[2]
                    /\ r[2] <= r[1] + MaxTick}

\* lines 471-476: numIssues_ is the count of the saved search; the first
\* progress update
RetrieveNumIssues ==
    /\ prPc = "start"
    /\ numIssues_' = prServer.count
    /\ \E r \in ClockReadings :
        LET update == progressUpdate(lastProgressUpdate_, progressCallback, r[1], r[2],
                        percentageDone(numIssues_', numTasksWithDetails_, minTimeStamp_,
                                       maxActivityTimeStamp_, maxUpdateTimeStamp_))
        IN  /\ lastProgressUpdate_' = update.lastProgressUpdate
            /\ progressCallback' = update.calls
            /\ prNow' = update.now
    /\ prPc' = "issues"
    /\ UNCHANGED <<numTasksWithDetails_, minTimeStamp_, maxUpdateTimeStamp_, maxActivityTimeStamp_,
                   prConfig, prServer>>
    /\ UNCHANGED varsNotProgress

\* the greatest element of a list of numbers, or the number given
RECURSIVE MaxOfList(_, _)
MaxOfList(list, least) ==
    IF list = <<>> THEN least ELSE MaxOfList(Tail(list), Max(least, Head(list)))

\* lines 600-658: one batch of issues (their update timestamps) arrives; the
\* last batch is shorter than restBatchSize
RetrieveIssuesBatch ==
    /\ prPc = "issues"
    /\ LET length == Min(prConfig.restBatchSize, Len(prServer.issues))
           restIssues == SubSeq(prServer.issues, 1, length)
       IN  /\ numTasksWithDetails_' = numTasksWithDetails_ + length
           /\ maxUpdateTimeStamp_' = MaxOfList(restIssues, maxUpdateTimeStamp_)
           /\ prServer' = [prServer EXCEPT !.issues = SubSeq(prServer.issues, length + 1, Len(prServer.issues))]
           /\ prPc' = IF length >= prConfig.restBatchSize THEN "issues" ELSE "activities"
    /\ \E r \in ClockReadings :
        LET update == progressUpdate(lastProgressUpdate_, progressCallback, r[1], r[2],
                        percentageDone(numIssues_, numTasksWithDetails_', minTimeStamp_,
                                       maxActivityTimeStamp_, maxUpdateTimeStamp_'))
        IN  /\ lastProgressUpdate_' = update.lastProgressUpdate
            /\ progressCallback' = update.calls
            /\ prNow' = update.now
    /\ UNCHANGED <<numIssues_, minTimeStamp_, maxActivityTimeStamp_, prConfig>>
    /\ UNCHANGED varsNotProgress

\* lines 685-706 and 848-856: one page of activity items (their timestamps)
\* arrives; hasAfter is false for the page that ends the list
RetrieveActivitiesPage ==
    /\ prPc = "activities"
    /\ LET length == Min(prConfig.restBatchSize, Len(prServer.activities))
           activityItems == SubSeq(prServer.activities, 1, length)
           hasAfter == length < Len(prServer.activities)
       IN  /\ minTimeStamp_' = IF activityItems # <<>> /\ minTimeStamp_ = 0
                               THEN activityItems[1] ELSE minTimeStamp_
           /\ maxActivityTimeStamp_' = IF activityItems # <<>>
                                       THEN Max(maxActivityTimeStamp_, activityItems[Len(activityItems)])
                                       ELSE maxActivityTimeStamp_
           /\ prServer' = [prServer EXCEPT !.activities =
                            SubSeq(prServer.activities, length + 1, Len(prServer.activities))]
           /\ prPc' = IF hasAfter THEN "activities" ELSE "done"
    /\ \E r \in ClockReadings :
        LET update == progressUpdate(lastProgressUpdate_, progressCallback, r[1], r[2],
                        percentageDone(numIssues_, numTasksWithDetails_, minTimeStamp_',
                                       maxActivityTimeStamp_', maxUpdateTimeStamp_))
        IN  /\ lastProgressUpdate_' = update.lastProgressUpdate
            /\ progressCallback' = update.calls
            /\ prNow' = update.now
    /\ UNCHANGED <<numIssues_, numTasksWithDetails_, maxUpdateTimeStamp_, prConfig>>
    /\ UNCHANGED varsNotProgress

\* the timestamps of the activity items of the issues: in the order of time,
\* none later than the latest update of an issue
ActivityTimestamps(updated) ==
    {list \in ListsUpTo(1..MaxOfList(updated, 0), MaxProgressActivities) :
        \A i \in 1..(Len(list) - 1) : list[i] <= list[i + 1]}

InitProgress ==
    /\ numIssues_ = 0
    /\ numTasksWithDetails_ = 0
    /\ minTimeStamp_ = 0
    /\ maxUpdateTimeStamp_ = 0
    /\ maxActivityTimeStamp_ = 0
    /\ lastProgressUpdate_ = 0
    /\ prConfig \in [progressUpdateIntervalMs : 0..MaxIntervalMs, restBatchSize : 1..MaxRestBatchSize]
    /\ \E updated \in ListsUpTo(1..MaxTimestamp, MaxProgressIssues) :
        prServer \in [count : {Len(updated)}, issues : {updated}, activities : ActivityTimestamps(updated)]
    /\ prNow \in 0..MaxTick
    /\ progressCallback = <<>>
    /\ prPc = "start"
    /\ IdleNotProgress

NextProgress == RetrieveNumIssues \/ RetrieveIssuesBatch \/ RetrieveActivitiesPage

SpecProgress == InitProgress /\ [][NextProgress]_vars

\* the number lies between 0 and 100
IsPercentage(x) == NumberLessEq(Number(0), x) /\ NumberLessEq(x, Number(100))

\* C30 as stated: every value passed to the progress callback lies between 0
\* and 100, each value is greater than or equal to the value passed before it,
\* and two successive invocations are at least progressUpdateIntervalMs apart
\* according to Date.now().
C30_ProgressIsMonotone ==
    /\ \A i \in DOMAIN progressCallback : IsPercentage(progressCallback[i].percentageDone)
    /\ \A i \in 1..(Len(progressCallback) - 1) :
        /\ NumberLessEq(progressCallback[i].percentageDone, progressCallback[i + 1].percentageDone)
        /\ progressCallback[i + 1].now - progressCallback[i].now >= prConfig.progressUpdateIntervalMs

\* the same without the case of NaN: a value that is a number lies between 0
\* and 100 and is not less than the numbers before it, and successive
\* invocations are at least progressUpdateIntervalMs apart
ProgressIsMonotoneUnlessNaN ==
    /\ \A i \in DOMAIN progressCallback :
        progressCallback[i].percentageDone.nan \/ IsPercentage(progressCallback[i].percentageDone)
    /\ \A i, j \in DOMAIN progressCallback :
        i < j /\ ~progressCallback[i].percentageDone.nan /\ ~progressCallback[j].percentageDone.nan =>
            NumberLessEq(progressCallback[i].percentageDone, progressCallback[j].percentageDone)
    /\ \A i \in 1..(Len(progressCallback) - 1) :
        progressCallback[i + 1].now - progressCallback[i].now >= prConfig.progressUpdateIntervalMs

\* the callback is invoked with NaN after all issues arrived
ProgressIsNaN ==
    /\ prPc = "done"
    /\ progressCallback # <<>>
    /\ progressCallback[Len(progressCallback)].percentageDone.nan


-----------------------------------------------------------------------------
\* Further claims about groupByIntervalAndWaitStatus

\* C31 as stated: no input array of activities makes the assertion 'count
\* cannot become negative' fail; during the sweep the count of an assignee is
\* never negative.
C31_CountNeverNegative == grPc # "assertion"

\* the assertion fails only for an array with an activity that ends before it
\* starts
CountNegativeOnlyIfEndBeforeStart == grPc = "assertion" => ~GrValidInput

\* an activity that ends before it starts makes the assertion fail
CountNegativeExample ==
    groupByIntervalAndWaitStatus(
        <<[assignee |-> "a", start |-> 1, end |-> 0, isWaiting |-> FALSE]>>).assertion
            = "count cannot become negative"


-----------------------------------------------------------------------------
\* Further claims about the job graph

\* the dependencies of job j of the instance
JobDependencies(j) == Range(instance.jobs[j].dependencies)

\* the jobs of the direct children of issue i that wait for its start: the
\* start-to-start job of a child, which is its main job if it has no children
ChildrenStartJobs(i) ==
    {startToStartDummyJobIdx(issues, k) : k \in Range(NodeChildren(issues, i))}

\* the start-to-start job of an issue with children: the children's jobs list
\* it and it lists the as-dependency job of the issue's dependencies
StartToStartOfChildrenAndDependencies(i) ==
    /\ \A j \in ChildrenStartJobs(i) : startToStartDummyJobIdx(issues, i) \in JobDependencies(j)
    /\ \A d \in Range(issues[i].dependencies) :
        asDependencyJobIdx(issues, d) \in JobDependencies(startToStartDummyJobIdx(issues, i))

\* C32 as stated: for every issue with at least one child, the issue's own
\* main job and the start-to-start job of every direct child (its main job for
\* a child without children) list the issue's start-to-start dummy job among
\* their dependencies, and the start-to-start dummy job depends on the
\* as-dependency job of each of the issue's own dependencies.
C32_StartToStartEdges ==
    schedPc = "awaiting" =>
        \A i \in IssuesWithChildren(issues) :
            /\ startToStartDummyJobIdx(issues, i) \in JobDependencies(jobIdx(issues, i))
            /\ StartToStartOfChildrenAndDependencies(i)

\* the same without the issue's own main job
StartToStartEdgesOfOthers ==
    schedPc = "awaiting" =>
        \A i \in IssuesWithChildren(issues) :
            /\ instance.jobs[startToStartDummyJobIdx(issues, i)].type = "START_TO_START"
            /\ instance.jobs[startToStartDummyJobIdx(issues, i)].issueIdx = i
            /\ StartToStartOfChildrenAndDependencies(i)

\* the main job of an issue with children never lists the issue's own
\* start-to-start job
MainJobWithoutOwnStartToStart ==
    schedPc = "awaiting" =>
        \A i \in IssuesWithChildren(issues) :
            startToStartDummyJobIdx(issues, i) \notin JobDependencies(jobIdx(issues, i))


\* the job of the instance that was made for issue i with the job type
JobOf(i, jobType) ==
    CHOOSE j \in DOMAIN instance.jobs :
        instance.jobs[j].issueIdx = i /\ instance.jobs[j].type = jobType

\* the job that stands for issue i as a dependency: its finish-to-finish job
\* if it has children, else its main job
AsDependencyJob(i) ==
    IF i \in IssuesWithChildren(issues) THEN JobOf(i, "FINISH_TO_FINISH") ELSE JobOf(i, "MAIN")

\* the jobs that were made for issue i
JobsOf(i) == {j \in DOMAIN instance.jobs : instance.jobs[j].issueIdx = i}

\* C33: for every issue with children the finish-to-finish dummy job has size
\* 0 and depends exactly on the issue's main job and the as-dependency job of
\* every direct child; a dependent of the issue has a job that depends on the
\* finish-to-finish job, and no other job than the finish-to-finish job
\* depends on the main job; so the finish-to-finish job comes, over job
\* dependencies, after the main job of every transitive sub-issue.
C33_FinishToFinishEdges ==
    schedPc = "awaiting" =>
        \A i \in IssuesWithChildren(issues) :
            LET finish == JobOf(i, "FINISH_TO_FINISH")
                main == JobOf(i, "MAIN")
            IN  /\ instance.jobs[finish].size = 0
                /\ JobDependencies(finish)
                    = {main} \cup {AsDependencyJob(k) : k \in Range(NodeChildren(issues, i))}
                /\ \A x \in DOMAIN issues :
                    i \in Range(issues[x].dependencies) =>
                        \E j \in JobsOf(x) : finish \in JobDependencies(j)
                /\ \A j \in DOMAIN instance.jobs : main \in JobDependencies(j) => j = finish
                /\ \A y \in Subtree(issues, i) :
                    JobOf(y, "MAIN") \in ReachPlus(JobDependencyEdges(instance.jobs), finish)

\* three issues: one with a child, and a third one without parent that
\* depends on it and whose main job lists the finish-to-finish job
C33_Witness ==
    /\ schedPc = "awaiting"
    /\ Len(issues) = 3
    /\ Len(instance.jobs) = 5
    /\ \E a, b, d \in DOMAIN issues :
        /\ issues[b].parent = a
        /\ issues[d].dependencies = <<a>>
        /\ issues[d].parent = 0
        /\ d \notin {a, b}
        /\ instance.jobs[JobOf(a, "FINISH_TO_FINISH")].dependencies = <<JobOf(b, "MAIN"), JobOf(a, "MAIN")>>
        /\ JobOf(a, "FINISH_TO_FINISH") \in JobDependencies(JobOf(d, "MAIN"))


-----------------------------------------------------------------------------
\* Further claims about addStateTransition

\* the working sequence before the new transition is dropped, merged or added
\* (lines 760-803)
Prepared(a, newStateTransition, replacementForPreviousUnknown, c) ==
    RemoveShortActive(
        ResolveUnknown(PopNotEarlier(a, newStateTransition.timestamp), replacementForPreviousUnknown, c),
        newStateTransition.timestamp, c)

\* the number of entries of a that the call keeps: all entries of the result
\* but an appended new transition
NumKept(a, newStateTransition, replacementForPreviousUnknown, c) ==
    LET prepared == Prepared(a, newStateTransition, replacementForPreviousUnknown, c)
        result == addStateTransition(a, newStateTransition, replacementForPreviousUnknown, c)
    IN  IF Len(result) > Len(prepared) THEN Len(result) - 1 ELSE Len(result)

\* the entries that the call keeps are the first ones of a, with their
\* timestamps
KeepsFront(a, newStateTransition, replacementForPreviousUnknown, c) ==
    LET result == addStateTransition(a, newStateTransition, replacementForPreviousUnknown, c)
    IN  \A i \in 1..NumKept(a, newStateTransition, replacementForPreviousUnknown, c) :
            /\ i <= Len(a)
            /\ result[i].timestamp = a[i].timestamp

\* C34 as stated: for a chronological event stream a single call of
\* addStateTransition removes at most two entries from the working sequence,
\* and only from its tail (the other entries keep timestamp and position).
C34_AtMostTwoRemoved ==
    (trPc = "events" /\ trChronological) =>
        \A t \in trLastTimestamp..trIssue.lastUpdate, s \in ActiveState, r \in ActiveState :
            /\ KeepsFront(stateTransitions, StateTransition(t, s), r, trConfig.minStateChangeDurationMs)
            /\ Len(stateTransitions)
                - NumKept(stateTransitions, StateTransition(t, s), r, trConfig.minStateChangeDurationMs) <= 2

\* C34, amended: for a chronological event stream a single call of
\* addStateTransition removes at most three entries from the working sequence,
\* and only from its tail (the other entries keep timestamp and position).
C34_AtMostThreeRemoved ==
    (trPc = "events" /\ trChronological) =>
        \A t \in trLastTimestamp..trIssue.lastUpdate, s \in ActiveState, r \in ActiveState :
            /\ KeepsFront(stateTransitions, StateTransition(t, s), r, trConfig.minStateChangeDurationMs)
            /\ Len(stateTransitions)
                - NumKept(stateTransitions, StateTransition(t, s), r, trConfig.minStateChangeDurationMs) <= 3

\* three entries are removed by one call whose timestamp is later than every
\* timestamp before it
C34_Witness ==
    /\ trPc = "events"
    /\ trChronological
    /\ \E t \in (trLastTimestamp + 1)..trIssue.lastUpdate, s \in ActiveState, r \in ActiveState :
        Len(stateTransitions)
            - NumKept(stateTransitions, StateTransition(t, s), r, trConfig.minStateChangeDurationMs) = 3


\* invariants 5, 6 and 7 of the comment of addStateTransition (lines 751-753),
\* for the sequence a with entries a[1], ..., a[n]
GapInvariants(a, c) ==
    LET n == Len(a)
    IN  /\ \A i \in 2..(n - 2) : a[i].timestamp - a[i - 1].timestamp >= c
        /\ (n >= 3 /\ a[n - 1].timestamp - a[n - 2].timestamp < c) =>
            /\ a[n].timestamp - a[n - 1].timestamp < c
            /\ a[n - 1].activeState = "INACTIVE"
            /\ a[n].activeState = "UNKNOWN"
        /\ (n >= 2 /\ a[n].timestamp - a[n - 1].timestamp < c) =>
            a[n].activeState \in {"INACTIVE", "UNKNOWN"}

\* C35 as stated: after every call of addStateTransition the gap invariants
\* of the code comment hold (the two calls of finalizeSchedule included).
C35_GapInvariants ==
    /\ GapInvariants(stateTransitions, trConfig.minStateChangeDurationMs)
    /\ trPc = "events" =>
        GapInvariants(AfterLastUpdate(stateTransitions, trIssue, trConfig.minStateChangeDurationMs),
                      trConfig.minStateChangeDurationMs)


\* the gap invariants are broken by the calls of parseActivityItems already:
\* an UNKNOWN entry that follows a short inactive phase is resolved to ACTIVE
GapInvariantsBrokenByEvents ==
    /\ trPc = "events"
    /\ Len(stateTransitions) = 4
    /\ StrictlyIncreasing(stateTransitions)
    /\ ~GapInvariants(stateTransitions, trConfig.minStateChangeDurationMs)


\* ACTIVE, INACTIVE, ACTIVE, ...: the entries at odd positions are ACTIVE, the
\* others INACTIVE
ActiveFirstAlternating(a) ==
    \A i \in DOMAIN a : a[i].activeState = (IF i % 2 = 1 THEN "ACTIVE" ELSE "INACTIVE")

\* every activity starts at an ACTIVE transition and ends at the INACTIVE
\* transition after it, or is open-ended if there is none
ActivitiesFollowTransitions(activities, a) ==
    /\ Len(activities) = Cardinality({i \in DOMAIN a : a[i].activeState = "ACTIVE"})
    /\ \A k \in DOMAIN activities :
        \E i \in DOMAIN a :
            /\ a[i].activeState = "ACTIVE"
            /\ activities[k].start = a[i].timestamp
            /\ IF i < Len(a)
               THEN a[i + 1].activeState = "INACTIVE" /\ activities[k].end = a[i + 1].timestamp
               ELSE activities[k].end = MAX_SAFE_INTEGER

\* start < end, sorted by time and pairwise disjoint, none waiting
ActivitiesInOrder(activities) ==
    /\ \A k \in DOMAIN activities :
        activities[k].start < activities[k].end /\ ~activities[k].isWaiting
    /\ \A k \in 1..(Len(activities) - 1) : activities[k].end <= activities[k + 1].start

\* C38: for a chronological event stream the finalized transition sequence
\* alternates ACTIVE, INACTIVE, ACTIVE, ... and starts with ACTIVE if it is not
\* empty; every reconstructed activity starts at an ACTIVE transition and ends
\* at the next INACTIVE transition or is open-ended; the activities have
\* start < end, are pairwise disjoint, sorted by time and not waiting.
C38_ActivitiesFromAlternation ==
    (trPc \notin {"idle", "events"} /\ trChronological) =>
        /\ ActiveFirstAlternating(stateTransitions)
        /\ trPc = "finalized" =>
            /\ ActivitiesFollowTransitions(trActivities, stateTransitions)
            /\ ActivitiesInOrder(trActivities)

\* two activities were reconstructed, the second one open-ended
C38_Witness ==
    /\ trPc = "finalized"
    /\ trChronological
    /\ Len(stateTransitions) = 3
    /\ Len(trActivities) = 2
    /\ trActivities[1].end < trActivities[2].start
    /\ trActivities[2].end = MAX_SAFE_INTEGER


-----------------------------------------------------------------------------
(* YouTrackIssueActivities.run: the requests of reconstructProjectPlan *)

\* lines 471-479: the retrievals of run(), in the order of the awaits
Stages ==
    <<"retrieveNumIssues", "getStateBundleId", "retrieveSavedQueryName", "buildIdToActiveStateMap",
      "retrieveIssues", "retrieveOverlayOrder", "retrieveActivities">>

\* getAll (lines 547, 602), httpGetAll (668) and the cursor pages (693-705)
\* send one request after the other; the other retrievals send one request
Paginated(stage) ==
    Stages[stage] \in {"buildIdToActiveStateMap", "retrieveIssues", "retrieveOverlayOrder",
                       "retrieveActivities"}

\* lines 662-664: retrieveOverlayOrder returns at once without an overlay
NextStage(stage, hasOverlay) ==
    IF stage + 1 <= Len(Stages) /\ Stages[stage + 1] = "retrieveOverlayOrder" /\ ~hasOverlay
    THEN stage + 2
    ELSE stage + 1

\* what the server can answer: a full batch (a page with hasAfter), a last
\* batch, no response, a YouTrackError, a response with another status than 200
ResponseKinds(stage, page) ==
    {"last", "null", "error", "status"}
    \cup (IF Paginated(stage) /\ page < MaxPages THEN {"full"} ELSE {})

\* a YouTrackError resolves
ResponseFailureButError(kind) ==
    CASE kind = "null" -> "could not be reached"
      [] kind = "status" -> "returned an unexpected error"
      [] OTHER -> "none"

\* lines 297-311: the failure that onRequestFinished rejects with; "none" when
\* it resolves
ResponseFailure(kind) ==
    CASE kind = "null" -> "could not be reached"
      [] kind = "error" -> "returned the following error"
      [] kind = "status" -> "returned an unexpected error"
      [] OTHER -> "none"

\* lines 201-205: the failure of httpGet without authorization
NoTokenFailure == "No valid unexpired OAuth token available"

\* httpGet for the request `page` of `stage` and the await of its promise, with
\* `outstanding` requests not yet answered: without authorization the promise
\* is rejected at once, and the await throws
Request(stage, page, outstanding) ==
    /\ rnStage' = stage
    /\ IF rnTokenValid
       THEN /\ rnRequests' = Append(rnRequests, [stage |-> stage, page |-> page])
            /\ rnOutstanding' = outstanding + 1
            /\ rnPc' = "awaiting"
            /\ UNCHANGED <<rnRefused, rnPromise>>
       ELSE /\ rnRefused' = TRUE
            /\ rnPromise' = [state |-> "rejected", value |-> NoTokenFailure]
            /\ rnPc' = "rejected"
            /\ rnOutstanding' = outstanding
            /\ UNCHANGED rnRequests

\* line 468: this.promise = this.run(), up to the first await
RunStart ==
    /\ rnPc = "start"
    /\ Request(1, 1, 0)
    /\ UNCHANGED <<rnTokenValid, rnHasOverlay, rnResponses, rnProcessed>>
    /\ UNCHANGED varsNotRun

\* the token expires while a request is outstanding
TokenExpires ==
    /\ rnPc = "awaiting"
    /\ rnTokenValid
    /\ rnTokenValid' = FALSE
    /\ UNCHANGED <<rnHasOverlay, rnStage, rnRequests, rnResponses, rnOutstanding, rnRefused,
                   rnProcessed, rnPromise, rnPc>>
    /\ UNCHANGED varsNotRun

\* onloadend of the outstanding request and run() from there to its next await
\* or its end (lines 276-286, 694-705, 472-481)
ResponseArrives ==
    /\ rnPc = "awaiting"
    /\ \E kind \in ResponseKinds(rnStage, rnRequests[Len(rnRequests)].page),
          plan \in {"ProjectPlan", "AssertionError"} :
        LET failure == ResponseFailure(kind)
            page == rnRequests[Len(rnRequests)].page
            next == NextStage(rnStage, rnHasOverlay)
        IN  /\ rnResponses' = Append(rnResponses, kind)
            /\ IF failure # "none"
               THEN \* the await throws the failure
                    /\ plan = "ProjectPlan"
                    /\ rnPromise' = [state |-> "rejected", value |-> failure]
                    /\ rnPc' = "rejected"
                    /\ rnOutstanding' = rnOutstanding - 1
                    /\ UNCHANGED <<rnStage, rnRequests, rnRefused, rnProcessed>>
               ELSE /\ rnProcessed' = rnProcessed + 1
                    /\ IF kind = "full"
                       THEN \* lines 279-281, 696-698: the next batch or page
                            plan = "ProjectPlan" /\ Request(rnStage, page + 1, rnOutstanding - 1)
                       ELSE IF next <= Len(Stages)
                       THEN \* the next retrieval of run()
                            plan = "ProjectPlan" /\ Request(next, 1, rnOutstanding - 1)
                       ELSE \* lines 480-481: finalizeSchedule, which may fail an assertion
                            /\ rnOutstanding' = rnOutstanding - 1
                            /\ rnPromise' = [state |-> IF plan = "ProjectPlan" THEN "fulfilled" ELSE "rejected",
                                             value |-> plan]
                            /\ rnPc' = IF plan = "ProjectPlan" THEN "fulfilled" ELSE "rejected"
                            /\ UNCHANGED <<rnStage, rnRequests, rnRefused>>
    /\ UNCHANGED <<rnTokenValid, rnHasOverlay>>
    /\ UNCHANGED varsNotRun

InitRun ==
    /\ rnTokenValid \in BOOLEAN
    /\ rnHasOverlay \in BOOLEAN
    /\ rnStage = 0
    /\ rnRequests = <<>>
    /\ rnResponses = <<>>
    /\ rnOutstanding = 0
    /\ rnRefused = FALSE
    /\ rnProcessed = 0
    /\ rnPromise = [state |-> "pending", value |-> ""]
    /\ rnPc = "start"
    /\ IdleNotRun

NextRun == RunStart \/ TokenExpires \/ ResponseArrives

SpecRun == InitRun /\ [][NextRun]_vars


\* the responses that reject the promise of their request
RejectedResponses == {k \in DOMAIN rnResponses : rnResponses[k] \in {"null", "error", "status"}}

\* C36: if a request made during reconstructProjectPlan or httpGetAll is
\* rejected (no response, a YouTrackError, another status than 200, or no
\* unexpired token left when the request is to be sent), the returned promise is
\* rejected with that failure and neither a project plan nor a partial array is
\* delivered; at most one request is outstanding at any time, request k + 1 is
\* sent only after response k has arrived.
C36_RejectedWithFailure ==
    /\ rnOutstanding <= 1
    /\ rnOutstanding = Len(rnRequests) - Len(rnResponses)
    /\ (RejectedResponses # {} \/ rnRefused) =>
        /\ rnPc = "rejected"
        /\ rnOutstanding = 0
        /\ rnPromise.state = "rejected"
        /\ rnPromise.value =
            IF rnRefused THEN "No valid unexpired OAuth token available"
            ELSE LET kind == rnResponses[Len(rnResponses)]
                 IN  IF kind = "null" THEN "could not be reached"
                     ELSE IF kind = "error" THEN "returned the following error"
                     ELSE "returned an unexpected error"
    /\ rnPromise.state = "fulfilled" =>
        /\ RejectedResponses = {}
        /\ ~rnRefused
        /\ rnPromise.value = "ProjectPlan"

\* the token expired between the first and the second batch request of
\* httpGetAll in retrieveOverlayOrder; one batch had been processed there
C36_Witness ==
    /\ rnPc = "rejected"
    /\ rnRefused
    /\ Stages[rnStage] = "retrieveOverlayOrder"
    /\ rnRequests[Len(rnRequests)] = [stage |-> rnStage, page |-> 1]
    /\ rnResponses[Len(rnResponses)] = "full"
    /\ rnPromise = [state |-> "rejected", value |-> NoTokenFailure]


-----------------------------------------------------------------------------
(* Further claims about makeSchedulingInstance *)

\* lines 396-397: jobIdxToExtendedIssue gets one entry per job
jobIdxToExtendedIssue(inst) == [j \in DOMAIN inst.jobs |-> inst.jobs[j].issueIdx]

\* the number of machines of the contributors before contributor i
MachinesBefore(opts, i) == SeqSum([k \in 1..(i - 1) |-> opts.contributors[k].numMembers])

\* the jobs and machines of an instance for the issues iss and the options opts
\* (indices count from 1 here)
InstanceWellFormed(iss, opts, inst) ==
    LET numJobs == Len(inst.jobs)
        numMachines == Len(inst.machineSpeeds)
    IN  /\ numJobs = Len(iss) + 2 * Cardinality(IssuesWithChildren(iss))
        /\ Len(jobIdxToExtendedIssue(inst)) = numJobs
        /\ \A j \in 1..numJobs :
            \A k \in DOMAIN inst.jobs[j].dependencies :
                /\ inst.jobs[j].dependencies[k] \in 1..numJobs
                /\ inst.jobs[j].dependencies[k] # j
        /\ numMachines = MachinesBefore(opts, Len(opts.contributors) + 1)
        /\ Len(inst.machineIdxToContributorIdx) = numMachines
        /\ \A m \in 1..numMachines :
            LET i == inst.machineIdxToContributorIdx[m]
            IN  /\ i \in 1..Len(opts.contributors)
                /\ MachinesBefore(opts, i) < m
                /\ m <= MachinesBefore(opts, i) + opts.contributors[i].numMembers

\* the dependency relation of the issues has no cycle
DependenciesAcyclic(iss) == IsAcyclic([i \in DOMAIN iss |-> Range(iss[i].dependencies)])

\* C37: for every closed, acyclic issue set the instance of
\* makeSchedulingInstance has as many entries in jobIdxToExtendedIssue as jobs
\* (the number of issues plus two per issue with children), every dependency
\* index of every job is the index of a job, none is the placeholder NO_INDEX,
\* no job depends on itself, and the number of machines is the sum of the
\* contributors' numMembers, machine m belonging to the contributor whose range
\* of machines contains m.
C37_InstanceWellFormed ==
    (schedPc \notin {"start", "assertion"} /\ DependenciesAcyclic(issues)) =>
        InstanceWellFormed(issues, options, instance)

\* a parent with a sub-issue that depends on nothing, two contributors, the
\* first one with two members: four jobs on three machines
C37_Witness ==
    /\ schedPc = "awaiting"
    /\ DependenciesAcyclic(issues)
    /\ Len(issues) = 2
    /\ issues[2].parent = 1
    /\ Len(instance.jobs) = 4
    /\ instance.machineIdxToContributorIdx = <<1, 1, 2>>

\* the same for the forests of up to MaxIssues issues and the default options
InstanceWellFormedForForests ==
    schedPc = "awaiting" => InstanceWellFormed(issues, options, instance)


-----------------------------------------------------------------------------
(* Further claims about httpGetAllWithOptions *)

\* every batch but the last one is full
BatchesBeforeLastFull == \A k \in 1..(Len(gaBatches) - 1) : Len(gaBatches[k]) >= gaBatchSize

\* the loop ends with the first batch that is not full
StopsAtFirstShortBatch ==
    /\ gaPc = "awaiting" => \A k \in DOMAIN gaBatches : Len(gaBatches[k]) >= gaBatchSize
    /\ gaPc = "resolved" =>
        /\ BatchesBeforeLastFull
        /\ Len(gaBatches[Len(gaBatches)]) < gaBatchSize

\* C39: for restBatchSize >= 1 and a server holding N elements,
\* httpGetAllWithOptions terminates; it stops after the first batch with fewer
\* than restBatchSize elements and not as long as every batch is full, and it
\* sends exactly floor(N / restBatchSize) + 1 requests.
C39_TerminatesAfterAllRequests ==
    /\ <>(gaPc = "resolved")
    /\ [](StopsAtFirstShortBatch)
    /\ [](gaPc = "resolved" => Len(gaRequests) = (Len(gaServer) \div gaBatchSize) + 1)

\* what holds of every call: it terminates with the first short batch
TerminatesAtFirstShortBatch ==
    /\ <>(gaPc = "resolved")
    /\ [](StopsAtFirstShortBatch)

\* what holds of every call with a queryParams object that has no $skip
FreshQueryParamsRequestCount ==
    ("skip" \notin DOMAIN gaQueryParams) => C39_TerminatesAfterAllRequests

=============================================================================
